---- MODULE Spec2Model ----
(***************************************************************************)
(* A model of youtube-analytics-cli: the SQLite ingestion store            *)
(* (data_storage.py, show_mapper.py), the caption batch downloader         *)
(* (caption_downloader.py) and the show/episode pattern matcher            *)
(* (show_mapper.py).                                                       *)
(*                                                                         *)
(* Text is modelled as a sequence of one-character strings, so that        *)
(* concatenation, trimming and suffix matching are computed, not assumed.  *)
(* A nullable column or an Optional value is None (the empty tuple) or     *)
(* Some(x) (the one-element tuple).                                        *)
(***************************************************************************)
EXTENDS Integers, Sequences, FiniteSets, Bags, TLC

VARIABLES
    video_stats,        \* committed rows of table video_stats (a set of rows)
    traffic_sources,    \* committed rows of table traffic_sources (a bag)
    now,                \* the value CURRENT_TIMESTAMP evaluates to
    pc,                 \* where the store's most recent call stands
    call,               \* the most recent call of the store and its arguments
    tx_video_stats,     \* video_stats as the open connection sees it
    tx_traffic_sources, \* traffic_sources as the open connection sees it
    pending,            \* sources the INSERT loop has still to write
    files,              \* the caption directory: file name -> content
    b_pc,               \* where download_captions_batch stands
    video_ids,          \* its argument video_ids
    format,             \* its argument format
    item,               \* the position in video_ids of the current item
    video_title,        \* its local video_title
    caption_content,    \* its local caption_content
    stats,              \* its local stats, the value it returns
    raised,             \* the exception on its way to the except clauses
    save_result,        \* what the last call of save_caption returned
    requests,           \* the provider requests made for the current item
    handled,            \* history: <<video id, format, outcome>> of past items
    patterns,           \* config['show_patterns'] as _load_config loaded it
    call_title,         \* the title of the last call of _extract_show_episode
    extracted,          \* what that call returned or raised
    detect_args,        \* the arguments of the last _detect_youtube_short call
    is_short,           \* what that call returned
    subtitle_content,   \* the text extract_text_from_vtt is called with
    transcript,         \* what that call returned
    g_pc,               \* where get_channel_video_stats stands
    videos,             \* the video ids get_channel_videos returned
    g_item,             \* the position in videos of the current item
    fetched_stats,      \* its local video_stats
    fetched_sources,    \* its local traffic_sources
    saved_count,        \* its local saved_count, the value it returns
    events,             \* the requests and saves of the call, in order
    run,                \* the command being run, its config file, its phase
    listing             \* get_channel_videos: its argument, locals and position

db_vars == <<video_stats, traffic_sources, now>>
tx_vars == <<pc, call, tx_video_stats, tx_traffic_sources, pending>>
store_vars == <<db_vars, tx_vars>>
batch_vars == <<b_pc, video_ids, format, item, video_title, caption_content,
                stats, raised, requests, handled>>
caption_vars == <<files, save_result, batch_vars>>
matcher_vars == <<patterns, call_title, extracted>>
short_vars == <<detect_args, is_short>>
vtt_vars == <<subtitle_content, transcript>>
pure_vars == <<short_vars, vtt_vars>>
ingest_vars == <<g_pc, videos, g_item, fetched_stats, fetched_sources,
                 saved_count, events>>
run_vars == <<run>>
listing_vars == <<listing>>
command_vars == <<ingest_vars, run_vars, listing_vars>>
beside_store == <<caption_vars, matcher_vars, pure_vars, command_vars>>
beside_captions == <<store_vars, matcher_vars, pure_vars, command_vars>>
beside_matcher == <<store_vars, caption_vars, pure_vars, command_vars>>
beside_short ==
    <<store_vars, caption_vars, matcher_vars, vtt_vars, command_vars>>
beside_vtt ==
    <<store_vars, caption_vars, matcher_vars, short_vars, command_vars>>
beside_ingest == <<caption_vars, matcher_vars, pure_vars, run_vars, listing_vars>>
beside_run == <<caption_vars, matcher_vars, pure_vars, ingest_vars, listing_vars>>
beside_listing == <<store_vars, caption_vars, matcher_vars, pure_vars,
                    ingest_vars, run_vars>>
vars == <<store_vars, caption_vars, matcher_vars, pure_vars, command_vars>>

None == <<>>
Some(x) == <<x>>

(***************************************************************************)
(* Bounds and input sets.                                                  *)
(***************************************************************************)
MaxTime == 1

VideoIds == {<<"x">>, <<"y">>}
ShowNames == {<<"S">>}
EpisodeNums == {None, Some(1)}

\* The argument video_stats of save_video_stats_db: the fields the model
\* keeps.  Title and view count stand for all the ingested fields; an
\* ingestion reports either the first or the second value of both.
Ingested == {<<<<"a">>, 100>>, <<<<"b">>, 200>>}
StatsInputs ==
    {[video_id |-> v, title |-> p[1], view_count |-> p[2]] :
        v \in VideoIds, p \in Ingested}

\* The argument traffic_sources: a dict from source label to view count,
\* possibly empty ({} is what get_channel_video_stats passes when analytics
\* are off, failed or reported no rows).
NoSources == [s \in {} |-> 0]
TrafficInputs ==
    {NoSources,
     [s \in {"A", "B"} |-> IF s = "A" THEN 10 ELSE 5],
     [s \in {"A"} |-> 12],
     [s \in {"B"} |-> 5]}

(***************************************************************************)
(* Table video_stats (data_storage.py, CREATE TABLE and save_video_stats_db)*)
(***************************************************************************)
RowsOf(table, v) == {r \in table : r.video_id = v}

\* id INTEGER PRIMARY KEY AUTOINCREMENT: one more than the largest id.
NextId(table) ==
    IF table = {} THEN 1
    ELSE (CHOOSE i \in {r.id : r \in table} : \A r \in table : r.id <= i) + 1

\* SELECT id FROM video_stats WHERE video_id = ?   ...  fetchone()
existing(table, v) == RowsOf(table, v) # {}

\* Faulty variants of the UPDATE below: one that leaves view_count out of the
\* SET list, one that also resets collected_at, one that does not stamp
\* last_updated.
update_video_row_stale_views(table, s, t) ==
    [ok |-> TRUE,
     table |-> {IF r.video_id = s.video_id
                THEN [r EXCEPT !.title = s.title, !.last_updated = t]
                ELSE r : r \in table}]

update_video_row_restamped(table, s, t) ==
    [ok |-> TRUE,
     table |-> {IF r.video_id = s.video_id
                THEN [r EXCEPT !.title = s.title,
                               !.view_count = s.view_count,
                               !.collected_at = t,
                               !.last_updated = t]
                ELSE r : r \in table}]

update_video_row_unstamped(table, s, t) ==
    [ok |-> TRUE,
     table |-> {IF r.video_id = s.video_id
                THEN [r EXCEPT !.title = s.title,
                               !.view_count = s.view_count]
                ELSE r : r \in table}]

\* A faulty variant of the UPDATE below, as INSERT OR REPLACE would act:
\* the columns the mapper and the operator own fall back to their defaults.
update_video_row_replacing(table, s, t) ==
    [ok |-> TRUE,
     table |-> {IF r.video_id = s.video_id
                THEN [r EXCEPT !.title = s.title,
                               !.view_count = s.view_count,
                               !.show = None,
                               !.episode_num = None,
                               !.exclude_from_stats = 0,
                               !.last_updated = t]
                ELSE r : r \in table}]

\* UPDATE video_stats SET <the ingested fields>, last_updated =
\* CURRENT_TIMESTAMP WHERE video_id = ?
update_video_row(table, s, t) ==
    [ok |-> TRUE,
     table |-> {IF r.video_id = s.video_id
                THEN [r EXCEPT !.title = s.title,
                               !.view_count = s.view_count,
                               !.last_updated = t]
                ELSE r : r \in table}]

\* INSERT INTO video_stats (<the ingested fields>): show, episode_num and
\* exclude_from_stats take their column defaults, collected_at and
\* last_updated both DEFAULT CURRENT_TIMESTAMP.  video_id is UNIQUE: a second
\* row for the same video_id is an IntegrityError.
insert_video_row(table, s, t) ==
    IF RowsOf(table, s.video_id) # {}
    THEN [ok |-> FALSE, table |-> table]
    ELSE [ok |-> TRUE,
          table |-> table \cup
              {[id |-> NextId(table),
                video_id |-> s.video_id,
                title |-> s.title,
                view_count |-> s.view_count,
                show |-> None,
                episode_num |-> None,
                exclude_from_stats |-> 0,
                collected_at |-> t,
                last_updated |-> t]}]

\* The video-row write of save_video_stats_db: update when the SELECT found
\* the video, insert otherwise.
write_video_row(table, s, t) ==
    IF existing(table, s.video_id)
    THEN update_video_row(table, s, t)
    ELSE insert_video_row(table, s, t)

(***************************************************************************)
(* Table traffic_sources.                                                  *)
(***************************************************************************)
TrafficRowsOf(bag, v) ==
    LET keep == {r \in DOMAIN bag : r.video_id = v}
    IN [r \in keep |-> bag[r]]

\* A faulty variant of the DELETE below: it removes nothing.
delete_no_traffic_sources(bag, v) == bag

\* DELETE FROM traffic_sources WHERE video_id = ?
delete_traffic_sources(bag, v) ==
    LET keep == {r \in DOMAIN bag : r.video_id # v}
    IN [r \in keep |-> bag[r]]

\* INSERT INTO traffic_sources (video_id, traffic_source, views)
insert_traffic_source(bag, v, source, views) ==
    bag (+) SetToBag({[video_id |-> v, traffic_source |-> source,
                       views |-> views]})

\* for source, views in traffic_sources.items(): INSERT ...
RECURSIVE insert_traffic_sources(_, _, _, _)
insert_traffic_sources(bag, v, sources, todo) ==
    IF todo = {} THEN bag
    ELSE LET s == CHOOSE x \in todo : TRUE
         IN insert_traffic_sources(
                insert_traffic_source(bag, v, s, sources[s]),
                v, sources, todo \ {s})

\* if traffic_sources: DELETE the video's rows, then INSERT the new ones.
\* An empty dict (like None) is falsy: nothing is deleted or inserted.
replace_traffic_sources(bag, v, sources) ==
    IF DOMAIN sources # {}
    THEN insert_traffic_sources(delete_traffic_sources(bag, v), v, sources,
                                DOMAIN sources)
    ELSE bag

\* A faulty variant of after_statement below: a connection in autocommit
\* mode, where every statement is durable at once.
after_statement_autocommit(committed, working) == working

\* What the connection makes durable after one statement, before commit():
\* sqlite3 opens a transaction implicitly before the first INSERT / UPDATE /
\* DELETE, so nothing is durable until conn.commit().
after_statement(committed, working) == committed


(***************************************************************************)
(* Text helpers.                                                           *)
(***************************************************************************)
Min(a, b) == IF a <= b THEN a ELSE b

\* str.endswith
EndsWith(s, suffix) ==
    /\ Len(suffix) <= Len(s)
    /\ SubSeq(s, Len(s) - Len(suffix) + 1, Len(s)) = suffix

\* str.strip(chars)
RECURSIVE LStrip(_, _)
LStrip(s, chars) ==
    IF s # <<>> /\ Head(s) \in chars THEN LStrip(Tail(s), chars) ELSE s

RECURSIVE RStrip(_, _)
RStrip(s, chars) ==
    IF s # <<>> /\ s[Len(s)] \in chars
    THEN RStrip(SubSeq(s, 1, Len(s) - 1), chars)
    ELSE s

Strip(s, chars) == RStrip(LStrip(s, chars), chars)

(***************************************************************************)
(* Captions (caption_downloader.py).                                       *)
(***************************************************************************)
\* What the provider may answer for a title, and what download_caption may
\* return.
Titles == {<<"a">>, <<".", "a", "/">>}
Contents == {"c1", "c2"}
Formats == {<<"v", "t", "t">>}

\* How many ids a call of download_captions_batch is given at most.
MaxBatch == 2
BatchInputs == UNION {[1..n -> VideoIds] : n \in 0..MaxBatch}

\* sanitized[:200]
TitleCap == 200

\* invalid_chars = r'[<>:"/\\|?*]'
InvalidChars == {"<", ">", ":", "\"", "/", "\\", "|", "?", "*"}

\* CaptionDownloader.sanitize_filename
sanitize_filename(title) ==
    LET replaced == [k \in 1..Len(title) |->
                        IF title[k] \in InvalidChars THEN "_" ELSE title[k]]
        capped == SubSeq(replaced, 1, Min(Len(replaced), TitleCap))
    IN Strip(capped, {".", " "})

\* A faulty variant of caption_filename: no "_" before the video id.
caption_filename_unseparated(title, v, f) ==
    sanitize_filename(title) \o v \o <<".">> \o f

\* filename = f"{sanitized_title}_{video_id}.{format}"
caption_filename(title, v, f) ==
    sanitize_filename(title) \o <<"_">> \o v \o <<".">> \o f

\* A faulty variant of caption_file_exists: it never finds a file.
caption_file_exists_never(fs, v, f) == FALSE

\* CaptionDownloader.caption_file_exists:
\* output_dir.glob(f"*_{video_id}.{format}")
caption_file_exists(fs, v, f) ==
    \E n \in DOMAIN fs : EndsWith(n, <<"_">> \o v \o <<".">> \o f)

\* open(filepath, 'w').write(content)
write_file(fs, name, content) ==
    [n \in DOMAIN fs \cup {name} |-> IF n = name THEN content ELSE fs[n]]

\* A faulty variant of save_caption: it writes without looking.
save_caption_overwriting(fs, content, v, title, f) ==
    LET name == caption_filename(title, v, f)
    IN [path |-> Some(name), files |-> write_file(fs, name, content)]

\* CaptionDownloader.save_caption: the path written, or None and nothing
\* written when the file is there already.
save_caption(fs, content, v, title, f) ==
    LET name == caption_filename(title, v, f)
    IN IF name \in DOMAIN fs
       THEN [path |-> None, files |-> fs]
       ELSE [path |-> Some(name), files |-> write_file(fs, name, content)]

NewStats ==
    [successful |-> 0, failed |-> 0, no_captions |-> 0, skipped |-> 0,
     permission_denied |-> 0, failed_ids |-> <<>>, no_captions_ids |-> <<>>,
     permission_denied_ids |-> <<>>]

\* An exception raised in the try block of the loop body: its type, and
\* what it came from (the status of the provider's HttpError, "not found",
\* or the local write).
NoException == [type |-> "", cause |-> ""]
Exception(type, cause) == [type |-> type, cause |-> cause]

CaptionStart ==
    /\ files = <<>>
    /\ save_result = [called |-> FALSE, path |-> None]
    /\ b_pc = "idle"
    /\ video_ids = <<>>
    /\ format = <<"v", "t", "t">>
    /\ item = 0
    /\ video_title = <<>>
    /\ caption_content = ""
    /\ stats = NewStats
    /\ raised = NoException
    /\ requests = <<>>
    /\ handled = {}

video_id == video_ids[item]

\* A loop that leaves out the id after the current one.
NextItem_skipping(outcome) ==
    /\ item' = item + 2
    /\ b_pc' = IF item + 2 > Len(video_ids) THEN "returned" ELSE "check"
    /\ video_title' = <<>>
    /\ caption_content' = ""
    /\ handled' = handled \cup {<<video_id, format, outcome>>}

\* The loop moves to the next id, or the call returns stats.
NextItem(outcome) ==
    /\ item' = item + 1
    /\ b_pc' = IF item + 1 > Len(video_ids) THEN "returned" ELSE "check"
    /\ video_title' = <<>>
    /\ caption_content' = ""
    /\ handled' = handled \cup {<<video_id, format, outcome>>}

\* stats['skipped'] += 1
Skipped == stats' = [stats EXCEPT !.skipped = @ + 1]

\* A faulty variant of Failed below: the id is not appended.
Failed_unlisted == stats' = [stats EXCEPT !.failed = @ + 1]

\* except Exception: stats['failed'] += 1; failed_ids.append(video_id)
Failed ==
    stats' = [stats EXCEPT !.failed = @ + 1,
                           !.failed_ids = Append(@, video_id)]

\* except PermissionError: stats['permission_denied'] += 1; ...append(video_id)
PermissionDenied ==
    stats' = [stats EXCEPT !.permission_denied = @ + 1,
                           !.permission_denied_ids = Append(@, video_id)]

\* stats['no_captions'] += 1; no_captions_ids.append(video_id)
NoCaptions ==
    stats' = [stats EXCEPT !.no_captions = @ + 1,
                           !.no_captions_ids = Append(@, video_id)]

\* An exception leaves the try block: the except clauses are next.
Raise(exception) ==
    /\ raised' = exception
    /\ b_pc' = "except"
    /\ UNCHANGED <<stats, item, video_title, caption_content, handled>>

\* request.execute(): one request to the provider
Request(api) ==
    requests' = Append(requests, [item |-> item, video_id |-> video_id,
                                  api |-> api])

\* CaptionDownloader.download_captions_batch is called, by the
\* download-captions command: a process runs one command.
download_captions_batch(ids, f) ==
    /\ b_pc \in {"idle", "returned"}
    /\ g_pc = "idle"
    /\ video_ids' = ids
    /\ format' = f
    /\ stats' = NewStats
    /\ requests' = <<>>
    /\ item' = 1
    /\ b_pc' = IF ids = <<>> THEN "returned" ELSE "check"
    /\ UNCHANGED <<files, save_result, video_title, caption_content, raised,
                   handled, beside_captions>>

\* if self.caption_file_exists(video_id, format): skipped, continue
BatchCheck ==
    /\ b_pc = "check"
    /\ requests' = <<>>
    /\ IF caption_file_exists(files, video_id, format)
       THEN Skipped /\ NextItem("other")
       ELSE /\ b_pc' = "title"
            /\ UNCHANGED <<stats, item, video_title, caption_content, handled>>
    /\ UNCHANGED <<files, save_result, video_ids, format, raised,
                   beside_captions>>

\* video_title = self.get_video_title(video_id): a title, or ValueError (no
\* such video), or Exception for an HttpError
BatchTitle ==
    /\ b_pc = "title"
    /\ Request("videos.list")
    /\ \/ \E t \in Titles :
             /\ video_title' = t
             /\ b_pc' = "find"
             /\ UNCHANGED <<stats, item, caption_content, raised, handled>>
       \/ Raise(Exception("ValueError", "not found"))
       \/ Raise(Exception("Exception", "500"))
    /\ UNCHANGED <<files, save_result, video_ids, format, beside_captions>>

\* caption_id = self.find_caption_track(video_id, language_code): a track,
\* or no track of the language (None); list_caption_tracks turns an
\* HttpError 403 into PermissionError, 404 into ValueError and any other
\* into Exception
BatchFind ==
    /\ b_pc = "find"
    /\ Request("captions.list")
    /\ \/ /\ b_pc' = "download"
          /\ UNCHANGED <<stats, item, video_title, caption_content, raised,
                         handled>>
       \/ NoCaptions /\ NextItem("other") /\ UNCHANGED raised
       \/ Raise(Exception("PermissionError", "403"))
       \/ Raise(Exception("ValueError", "404"))
       \/ Raise(Exception("Exception", "500"))
    /\ UNCHANGED <<files, save_result, video_ids, format, beside_captions>>

\* caption_content = self.download_caption(caption_id, format): the text
\* (the extracted transcript for txt); download_caption turns every
\* HttpError, whatever its status, into Exception
BatchDownload ==
    /\ b_pc = "download"
    /\ Request("captions.download")
    /\ \/ \E c \in Contents :
             /\ caption_content' = c
             /\ b_pc' = "save"
             /\ UNCHANGED <<stats, item, video_title, raised, handled>>
       \/ Raise(Exception("Exception", "403"))
       \/ Raise(Exception("Exception", "500"))
    /\ UNCHANGED <<files, save_result, video_ids, format, beside_captions>>

\* filepath = self.save_caption(...): successful, or skipped when it returns
\* None; or open() raises an OSError, which for a path that may not be
\* written (EACCES) is its subclass PermissionError
BatchSave ==
    LET saved == save_caption(files, caption_content, video_id, video_title,
                              format)
    IN /\ b_pc = "save"
       /\ \/ /\ files' = saved.files
             /\ save_result' = [called |-> TRUE, path |-> saved.path]
             /\ IF saved.path # None
                THEN /\ stats' = [stats EXCEPT !.successful = @ + 1]
                     /\ NextItem("saved")
                ELSE Skipped /\ NextItem("other")
             /\ UNCHANGED raised
          \/ /\ saved.path # None
             /\ \/ Raise(Exception("OSError", "ENOSPC"))
                \/ Raise(Exception("PermissionError", "EACCES"))
             /\ UNCHANGED <<files, save_result>>
       /\ UNCHANGED <<video_ids, format, requests, beside_captions>>

\* except PermissionError: ... except Exception: ...
BatchExcept ==
    /\ b_pc = "except"
    /\ IF raised.type = "PermissionError" THEN PermissionDenied ELSE Failed
    /\ NextItem("other")
    /\ raised' = NoException
    /\ UNCHANGED <<files, save_result, video_ids, format, requests,
                   beside_captions>>

\* CaptionDownloader.save_caption called on its own, between batch calls.
SaveCaptionCall(content, v, title, f) ==
    /\ b_pc \in {"idle", "returned"}
    /\ LET saved == save_caption(files, content, v, title, f)
       IN /\ files' = saved.files
          /\ save_result' = [called |-> TRUE, path |-> saved.path]
    /\ UNCHANGED <<batch_vars, beside_captions>>

CaptionNext ==
    \/ \E ids \in BatchInputs, f \in Formats : download_captions_batch(ids, f)
    \/ BatchCheck
    \/ BatchTitle
    \/ BatchFind
    \/ BatchDownload
    \/ BatchSave
    \/ BatchExcept
    \/ \E c \in Contents, v \in VideoIds, t \in Titles, f \in Formats :
           SaveCaptionCall(c, v, t, f)

(***************************************************************************)
(* The show/episode matcher (show_mapper.py).                              *)
(***************************************************************************)
\* How many rules a loaded show_patterns list has at most.
MaxRules == 2

\* The titles _extract_show_episode is called with: "S 7" and "Q".
MatcherTitles == {<<"S", " ", "7">>, <<"Q">>}

\* What re.search returns: no match object, or one with its groups(), each
\* the captured text or None for a group that took no part in the match.
NoMatch == [matched |-> FALSE, groups |-> <<>>]
Match(groups) == [matched |-> TRUE, groups |-> groups]

\* re.search(regex, title) for the expressions of the modelled rules, on the
\* modelled titles.
re_search(regex, t) ==
    CASE regex = "(\\W|Q)" ->
            IF t = <<"Q">> THEN Match(<<Some(<<"Q">>)>>)
                           ELSE Match(<<Some(<<" ">>)>>)
      [] regex = "^(S\\s)(x)?\\d" ->
            IF t = <<"Q">> THEN NoMatch
                           ELSE Match(<<Some(<<"S", " ">>), None>>)
      [] regex = "(\\d+)" ->
            IF t = <<"Q">> THEN NoMatch ELSE Match(<<Some(<<"7">>)>>)
      [] regex = "S(x)?" ->
            IF t = <<"Q">> THEN NoMatch ELSE Match(<<None>>)
      [] regex = "(\\w)" ->
            IF t = <<"Q">> THEN Match(<<Some(<<"Q">>)>>)
                           ELSE Match(<<Some(<<"S">>)>>)

Whitespace == {" ", "\t", "\n", "\r"}
Digits == {"0", "1", "2", "3", "4", "5", "6", "7", "8", "9"}
DigitValue(d) ==
    CASE d = "0" -> 0 [] d = "1" -> 1 [] d = "2" -> 2 [] d = "3" -> 3
      [] d = "4" -> 4 [] d = "5" -> 5 [] d = "6" -> 6 [] d = "7" -> 7
      [] d = "8" -> 8 [] d = "9" -> 9

RECURSIVE DecimalValue(_)
DecimalValue(ds) ==
    IF ds = <<>> THEN 0
    ELSE 10 * DecimalValue(SubSeq(ds, 1, Len(ds) - 1)) + DigitValue(ds[Len(ds)])

\* int(text) of a str: the number, or ValueError.  Surrounding whitespace is
\* dropped, one sign is allowed, the rest must be decimal digits.
int(text) ==
    LET trimmed == Strip(text, Whitespace)
        signed == trimmed # <<>> /\ Head(trimmed) \in {"+", "-"}
        ds == IF signed THEN Tail(trimmed) ELSE trimmed
    IN IF ds # <<>> /\ \A k \in 1..Len(ds) : ds[k] \in Digits
       THEN [raised |-> "", value |->
                IF signed /\ Head(trimmed) = "-" THEN 0 - DecimalValue(ds)
                                                 ELSE DecimalValue(ds)]
       ELSE [raised |-> "ValueError", value |-> 0]

\* The rules a config file may hold.  A disabled rule, a rule without
\* title_regex, a rule whose episode_group is beyond the groups of its
\* episode expression, and the enabled rules made of a title expression, a
\* static name or none, a show_group or none, and an episode expression
\* with its episode_group, or none.
StaticNames == {None, Some(<<"N">>), Some(<<"M">>)}
ShowGroups == {None, Some(1), Some(2), Some(3)}
EpisodeRules ==
    {[episode_regex |-> None, episode_group |-> 1],
     [episode_regex |-> Some("(\\d+)"), episode_group |-> 1],
     [episode_regex |-> Some("S(x)?"), episode_group |-> 1],
     [episode_regex |-> Some("(\\w)"), episode_group |-> 1]}
Rule(enabled, title_regex, name, show_group, e) ==
    [enabled |-> enabled, title_regex |-> title_regex, name |-> name,
     show_group |-> show_group, episode_regex |-> e.episode_regex,
     episode_group |-> e.episode_group]
Rules ==
    {Rule(FALSE, Some("(\\W|Q)"), Some(<<"N">>), None,
          [episode_regex |-> None, episode_group |-> 1]),
     Rule(TRUE, None, Some(<<"N">>), None,
          [episode_regex |-> None, episode_group |-> 1]),
     Rule(TRUE, Some("(\\W|Q)"), Some(<<"N">>), None,
          [episode_regex |-> Some("(\\d+)"), episode_group |-> 2])}
    \cup {Rule(TRUE, Some(r), n, g, e) :
            r \in {"(\\W|Q)", "^(S\\s)(x)?\\d"}, n \in StaticNames,
            g \in ShowGroups, e \in EpisodeRules}
RuleLists == UNION {[1..n -> Rules] : n \in 0..MaxRules}

\* if pattern.get('show_group'): None and 0 are falsy
HasShowGroup(pattern) ==
    pattern.show_group # None /\ pattern.show_group[1] # 0

\* Lines 54-59: the static name, or the stripped text of the show group
\* when the match has that many groups; .strip() of None raises.
show_name_of(pattern, title_match) ==
    IF HasShowGroup(pattern)
       /\ Len(title_match.groups) >= pattern.show_group[1]
    THEN LET g == title_match.groups[pattern.show_group[1]]
         IN IF g = None
            THEN [raised |-> "AttributeError", value |-> None]
            ELSE [raised |-> "", value |-> Some(Strip(g[1], Whitespace))]
    ELSE [raised |-> "", value |-> pattern.name]

\* Lines 61-72: the episode number, or None when the expression is absent,
\* does not match, has too few groups, or its text is no integer
\* (ValueError is caught); int(None) raises TypeError, which is not caught.
episode_num_of(pattern, t) ==
    IF pattern.episode_regex = None
    THEN [raised |-> "", value |-> None]
    ELSE LET episode_match == re_search(pattern.episode_regex[1], t)
         IN IF ~episode_match.matched
               \/ Len(episode_match.groups) < pattern.episode_group
            THEN [raised |-> "", value |-> None]
            ELSE LET g == episode_match.groups[pattern.episode_group]
                 IN IF g = None
                    THEN [raised |-> "TypeError", value |-> None]
                    ELSE IF int(g[1]).raised = "ValueError"
                         THEN [raised |-> "", value |-> None]
                         ELSE [raised |-> "", value |-> Some(int(g[1]).value)]

\* if show_name: None and "" are falsy
Truthy(show_name) == show_name # None /\ show_name[1] # <<>>

Returned(show, episode_num) ==
    [kind |-> "return", show |-> show, episode_num |-> episode_num,
     error |-> ""]
Raised(error) ==
    [kind |-> "raise", show |-> None, episode_num |-> None, error |-> error]
NotCalled ==
    [kind |-> "none", show |-> None, episode_num |-> None, error |-> ""]

\* The loop of _extract_show_episode over the rules still to try.
RECURSIVE try_patterns(_, _)
try_patterns(todo, t) ==
    IF todo = <<>> THEN Returned(None, None)
    ELSE LET pattern == Head(todo)
         IN IF ~pattern.enabled \/ pattern.title_regex = None
            THEN try_patterns(Tail(todo), t)
            ELSE LET title_match == re_search(pattern.title_regex[1], t)
                     show_name == show_name_of(pattern, title_match)
                     episode_num == episode_num_of(pattern, t)
                 IN IF ~title_match.matched
                    THEN try_patterns(Tail(todo), t)
                    ELSE IF show_name.raised # ""
                    THEN Raised(show_name.raised)
                    ELSE IF episode_num.raised # ""
                    THEN Raised(episode_num.raised)
                    ELSE IF Truthy(show_name.value)
                    THEN Returned(show_name.value, episode_num.value)
                    ELSE try_patterns(Tail(todo), t)

\* A faulty variant of _extract_show_episode: the last rule that resolves a
\* show name wins.
_extract_show_episode_last_wins(rules, t) ==
    try_patterns([k \in 1..Len(rules) |-> rules[Len(rules) + 1 - k]], t)

\* ShowMapper._extract_show_episode
_extract_show_episode(rules, t) == try_patterns(rules, t)

MatcherStart ==
    /\ patterns = <<>>
    /\ call_title = <<>>
    /\ extracted = NotCalled

\* ShowMapper(config_path) has loaded a rule list.
MatcherInit ==
    /\ patterns \in RuleLists
    /\ call_title = <<>>
    /\ extracted = NotCalled

\* self._extract_show_episode(title) is called.
ExtractCall(t) ==
    /\ call_title' = t
    /\ extracted' = _extract_show_episode(patterns, t)
    /\ UNCHANGED <<patterns, beside_matcher>>

MatcherNext == \E t \in MatcherTitles : ExtractCall(t)

(***************************************************************************)
(* The Shorts classifier (youtube_client.py).                              *)
(***************************************************************************)
\* The longest duration, in seconds, the classifier is called with.
MaxDuration == 70

\* duration_seconds <= 60, duration_seconds <= 65, confidence_score >= 2
ShortSeconds == 60
BufferSeconds == 65
StrongIndicators == 2

\* str.lower(), on the letters the modelled texts use
lower_char(c) ==
    CASE c = "S" -> "s" [] c = "H" -> "h" [] c = "O" -> "o"
      [] c = "R" -> "r" [] c = "T" -> "t" [] OTHER -> c
lower(text) == [k \in 1..Len(text) |-> lower_char(text[k])]

\* keyword in text
Contains(text, keyword) ==
    \E k \in 0..(Len(text) - Len(keyword)) :
        SubSeq(text, k + 1, k + Len(keyword)) = keyword

\* shorts_keywords = ['#shorts', '#short', '#youtubeshorts', '#ytshorts']
shorts_keywords ==
    {<<"#", "s", "h", "o", "r", "t", "s">>,
     <<"#", "s", "h", "o", "r", "t">>,
     <<"#", "y", "o", "u", "t", "u", "b", "e", "s", "h", "o", "r", "t", "s">>,
     <<"#", "y", "t", "s", "h", "o", "r", "t", "s">>}

\* The snippets and recording details a video may come with: a description
\* ("", "x", "#Shorts"), a title ("", "a #short"), tags ([], ["x"],
\* ["Short"]) and a recordingDate or none.
Descriptions == {<<>>, <<"x">>, <<"#", "S", "h", "o", "r", "t", "s">>}
SnippetTitles == {<<>>, <<"a", " ", "#", "s", "h", "o", "r", "t">>}
TagLists == {<<>>, <<<<"x">>>>, <<<<"S", "h", "o", "r", "t">>>>}
Snippets ==
    [description : Descriptions, title : SnippetTitles, tags : TagLists]
RecordingDetails == {None, Some("2024-01-01")}

\* The list additional_indicators, as the set of its entries (each is
\* appended at most once).
additional_indicators(snippet, recording_details) ==
    (IF recording_details # None THEN {"mobile_recorded"} ELSE {})
    \cup (IF \E keyword \in shorts_keywords :
                Contains(lower(snippet.description), keyword)
          THEN {"shorts_hashtag"} ELSE {})
    \cup (IF \/ Contains(lower(snippet.title),
                         <<"#", "s", "h", "o", "r", "t", "s">>)
             \/ Contains(lower(snippet.title),
                         <<"#", "s", "h", "o", "r", "t">>)
          THEN {"shorts_title"} ELSE {})
    \cup (IF \E k \in 1..Len(snippet.tags) :
                Contains(lower(snippet.tags[k]),
                         <<"s", "h", "o", "r", "t">>)
          THEN {"shorts_tags"} ELSE {})

\* A faulty variant of _detect_youtube_short: the indicators are ignored.
_detect_youtube_short_duration_only(duration_seconds, content_details, snippet, status, recording_details) ==
    duration_seconds <= ShortSeconds /\ duration_seconds > 0

\* A faulty variant of _detect_youtube_short: strong indicators decide,
\* whatever the duration.
_detect_youtube_short_unbuffered(duration_seconds, content_details, snippet, status, recording_details) ==
    LET is_duration_short ==
            duration_seconds <= ShortSeconds /\ duration_seconds > 0
        confidence_score ==
            Cardinality(additional_indicators(snippet, recording_details))
    IN is_duration_short \/ confidence_score >= StrongIndicators

\* YouTubeClient._detect_youtube_short
_detect_youtube_short(duration_seconds, content_details, snippet, status, recording_details) ==
    LET is_duration_short ==
            duration_seconds <= ShortSeconds /\ duration_seconds > 0
        confidence_score ==
            Cardinality(additional_indicators(snippet, recording_details))
    IN IF ~is_duration_short /\ confidence_score >= StrongIndicators
       THEN duration_seconds <= BufferSeconds
       ELSE is_duration_short

ShortStart ==
    /\ detect_args = [duration_seconds |-> 0,
                      snippet |-> [description |-> <<>>, title |-> <<>>,
                                   tags |-> <<>>],
                      recording_details |-> None]
    /\ is_short = [called |-> FALSE, value |-> FALSE]

\* get_video_stats has fetched a video: its duration, snippet and
\* recording details.
ShortInit ==
    /\ detect_args \in [duration_seconds : 0..MaxDuration,
                         snippet : Snippets,
                         recording_details : RecordingDetails]
    /\ is_short = [called |-> FALSE, value |-> FALSE]

\* is_short = self._detect_youtube_short(...)
DetectCall ==
    /\ ~is_short.called
    /\ is_short' =
           [called |-> TRUE,
            value |-> _detect_youtube_short(detect_args.duration_seconds,
                                            None, detect_args.snippet, None,
                                            detect_args.recording_details)]
    /\ UNCHANGED <<detect_args, beside_short>>

ShortNext == DetectCall

(***************************************************************************)
(* The transcript extraction (caption_downloader.py).                      *)
(***************************************************************************)
\* How many lines the subtitle text has at most.
MaxLines == 4

\* The lines a subtitle text is made of: "Hello", "World", "<c>Hello</c>",
\* "<c>12</c>", "", "WEBVTT", "1 --> 2", "a<00:1>b", "a<01:1>b" and
\* " <i> World</i> ".  The tags <00:1> and <01:1> stand for the inline
\* timestamps <00:00:06.359> and <01:00:06.359>.
VttLines ==
    {<<"H", "e", "l", "l", "o">>,
     <<"W", "o", "r", "l", "d">>,
     <<"<", "c", ">", "H", "e", "l", "l", "o", "<", "/", "c", ">">>,
     <<"<", "c", ">", "1", "2", "<", "/", "c", ">">>,
     <<>>,
     <<"W", "E", "B", "V", "T", "T">>,
     <<"1", " ", "-", "-", ">", " ", "2">>,
     <<"a", "<", "0", "0", ":", "1", ">", "b">>,
     <<"a", "<", "0", "1", ":", "1", ">", "b">>,
     <<" ", "<", "i", ">", " ", "W", "o", "r", "l", "d", "<", "/", "i", ">",
       " ">>}

\* '\n'.join(lines)
RECURSIVE join(_)
join(lines) ==
    IF lines = <<>> THEN <<>>
    ELSE IF Len(lines) = 1 THEN lines[1]
    ELSE lines[1] \o <<"\n">> \o join(Tail(lines))

\* content.split('\n')
RECURSIVE split(_)
split(content) ==
    IF \A k \in 1..Len(content) : content[k] # "\n"
    THEN <<content>>
    ELSE LET k == CHOOSE k \in 1..Len(content) :
                      /\ content[k] = "\n"
                      /\ \A j \in 1..(k - 1) : content[j] # "\n"
         IN <<SubSeq(content, 1, k - 1)>>
                \o split(SubSeq(content, k + 1, Len(content)))

SubtitleContents ==
    {join(lines) : lines \in UNION {[1..n -> VttLines] : n \in 0..MaxLines}}

\* line.startswith(prefix)
startswith(line, prefix) ==
    Len(prefix) <= Len(line) /\ SubSeq(line, 1, Len(prefix)) = prefix

\* line.isdigit()
isdigit(line) == line # <<>> /\ \A k \in 1..Len(line) : line[k] \in Digits

\* re.sub(r'<[^>]+>', '', line): from the left, a "<" followed by one or
\* more characters other than ">" and then a ">" is removed.
RECURSIVE remove_tags(_)
remove_tags(line) ==
    IF line = <<>> THEN <<>>
    ELSE IF /\ Head(line) = "<"
            /\ Len(line) >= 3
            /\ line[2] # ">"
            /\ \E k \in 3..Len(line) : line[k] = ">"
    THEN LET k == CHOOSE k \in 3..Len(line) :
                      /\ line[k] = ">"
                      /\ \A j \in 3..(k - 1) : line[j] # ">"
         IN remove_tags(SubSeq(line, k + 1, Len(line)))
    ELSE <<Head(line)>> \o remove_tags(Tail(line))

\* A faulty variant of clean_line below: the line is not stripped again
\* after its tags are removed.
clean_line_unstripped(raw) ==
    LET line == Strip(raw, Whitespace)
    IN IF \/ line = <<>>
          \/ startswith(line, <<"W", "E", "B", "V", "T", "T">>)
          \/ Contains(line, <<"-", "-", ">">>)
          \/ isdigit(line)
          \/ startswith(line, <<"N", "O", "T", "E">>)
       THEN None
       ELSE IF Contains(line, <<"<", "0", "0", ":">>)
       THEN None
       ELSE LET untagged == remove_tags(line)
            IN IF untagged = <<>> THEN None ELSE Some(untagged)

\* One pass of the loop body up to the duplicate test: None when the line
\* is skipped, or the line without tags.
clean_line(raw) ==
    LET line == Strip(raw, Whitespace)
    IN IF \/ line = <<>>
          \/ startswith(line, <<"W", "E", "B", "V", "T", "T">>)
          \/ Contains(line, <<"-", "-", ">">>)
          \/ isdigit(line)
          \/ startswith(line, <<"N", "O", "T", "E">>)
       THEN None
       ELSE IF Contains(line, <<"<", "0", "0", ":">>)
       THEN None
       ELSE LET untagged == Strip(remove_tags(line), Whitespace)
            IN IF untagged = <<>> THEN None ELSE Some(untagged)

\* for line in lines: ... with text_lines and previous_line
RECURSIVE text_lines_of(_, _, _)
text_lines_of(lines, text_lines, previous_line) ==
    IF lines = <<>> THEN text_lines
    ELSE LET line == clean_line(Head(lines))
         IN IF line = None \/ line = previous_line
            THEN text_lines_of(Tail(lines), text_lines, previous_line)
            ELSE text_lines_of(Tail(lines), Append(text_lines, line[1]),
                               line)

\* The loop of a faulty variant: a line is dropped when it equals any
\* retained line.
RECURSIVE text_lines_without_repeats(_, _)
text_lines_without_repeats(lines, text_lines) ==
    IF lines = <<>> THEN text_lines
    ELSE LET line == clean_line(Head(lines))
         IN IF \/ line = None
               \/ \E k \in 1..Len(text_lines) : text_lines[k] = line[1]
            THEN text_lines_without_repeats(Tail(lines), text_lines)
            ELSE text_lines_without_repeats(Tail(lines),
                                            Append(text_lines, line[1]))

\* A faulty variant of extract_text_from_vtt: no line is retained twice.
extract_text_from_vtt_without_repeats(vtt_content) ==
    join(text_lines_without_repeats(split(vtt_content), <<>>))

\* CaptionDownloader.extract_text_from_vtt
extract_text_from_vtt(vtt_content) ==
    join(text_lines_of(split(vtt_content), <<>>, None))

VttStart ==
    /\ subtitle_content = <<>>
    /\ transcript = [called |-> FALSE, value |-> <<>>]

\* download_caption has the subtitle text of a track.
VttInit ==
    /\ subtitle_content \in SubtitleContents
    /\ transcript = [called |-> FALSE, value |-> <<>>]

\* subtitle_content = self.extract_text_from_vtt(subtitle_content)
ExtractTextCall ==
    /\ ~transcript.called
    /\ transcript' = [called |-> TRUE,
                      value |-> extract_text_from_vtt(subtitle_content)]
    /\ UNCHANGED <<subtitle_content, beside_vtt>>

VttNext == ExtractTextCall

(***************************************************************************)
(* Initial state: the database as _init_database creates it.              *)
(***************************************************************************)
NoCall == [op |-> "none"]

StoreStart ==
    /\ video_stats = {}
    /\ traffic_sources = EmptyBag
    /\ now = 0
    /\ pc = "idle"
    /\ call = NoCall
    /\ tx_video_stats = {}
    /\ tx_traffic_sources = EmptyBag
    /\ pending = {}

PureStart == ShortStart /\ VttStart

\* No command has been run, process_videos has not been called.
NoRun ==
    [command |-> "none", config |-> [loadable |-> FALSE, error |-> "none"],
     dry_run |-> FALSE, phase |-> "none", saved_count |-> 0]
RunStart == run = NoRun

\* get_channel_video_stats has not been called.
IngestStart ==
    /\ g_pc = "idle"
    /\ videos = <<>>
    /\ g_item = 0
    /\ fetched_stats = None
    /\ fetched_sources = NoSources
    /\ saved_count = 0
    /\ events = <<>>

\* get_channel_videos has not been called.
NoListing ==
    [pc |-> "idle", max_results |-> 0, videos |-> <<>>,
     next_page_token |-> None, page_count |-> 0, per_page |-> 0,
     page_videos |-> <<>>, provided |-> <<>>, within |-> TRUE,
     error |-> "none"]

ListingStart == listing = NoListing

CommandStart == IngestStart /\ RunStart /\ ListingStart
InitStore ==
    StoreStart /\ CaptionStart /\ MatcherStart /\ PureStart /\ CommandStart

Resting == pc \in {"idle", "done", "failed", "crashed"}

\* The clock advances.
Tick ==
    /\ now < MaxTime
    /\ now' = now + 1
    /\ UNCHANGED <<video_stats, traffic_sources, tx_vars, beside_store>>

(***************************************************************************)
(* The store's operations, each as one step (Spec).                        *)
(***************************************************************************)
SaveCall(s, sources) ==
    [op |-> "save", video_id |-> s.video_id, stats |-> s,
     traffic_sources |-> sources, at |-> now]

\* DataStorage.save_video_stats_db, run to its commit.
save_video_stats_db(s, sources) ==
    LET w == write_video_row(video_stats, s, now)
    IN /\ Resting
       /\ call' = SaveCall(s, sources)
       /\ IF w.ok
          THEN /\ video_stats' = w.table
               /\ traffic_sources' =
                      replace_traffic_sources(traffic_sources, s.video_id,
                                              sources)
               /\ pc' = "done"
          ELSE /\ pc' = "failed"
               /\ UNCHANGED <<video_stats, traffic_sources>>
       /\ UNCHANGED <<now, tx_video_stats, tx_traffic_sources, pending,
                      beside_store>>

\* DataStorage.save_video_stats_db raising (a missing key of the stats dict,
\* a database error): the with-block rolls the connection back.
save_video_stats_db_raises(s, sources) ==
    /\ Resting
    /\ call' = [op |-> "save", video_id |-> s.video_id]
    /\ pc' = "failed"
    /\ UNCHANGED <<db_vars, tx_video_stats, tx_traffic_sources, pending,
                   beside_store>>

\* UPDATE video_stats SET show = ?, episode_num = ?, last_updated =
\* CURRENT_TIMESTAMP WHERE video_id = ?
set_show_episode(table, v, show_name, episode_num, t) ==
    {IF r.video_id = v
     THEN [r EXCEPT !.show = Some(show_name), !.episode_num = episode_num,
                    !.last_updated = t]
     ELSE r : r \in table}

\* ShowMapper.update_video_show_episode
update_video_show_episode(v, show_name, episode_num, dry_run) ==
    /\ Resting
    /\ call' = [op |-> "show", video_id |-> v, dry_run |-> dry_run]
    /\ pc' = "done"
    /\ video_stats' = IF dry_run THEN video_stats
                      ELSE set_show_episode(video_stats, v, show_name,
                                            episode_num, now)
    /\ UNCHANGED <<traffic_sources, now, tx_video_stats, tx_traffic_sources,
                   pending, beside_store>>

Next ==
    \/ Tick
    \/ \E s \in StatsInputs, m \in TrafficInputs : save_video_stats_db(s, m)
    \/ \E s \in StatsInputs : save_video_stats_db_raises(s, NoSources)
    \/ \E v \in VideoIds, n \in ShowNames, e \in EpisodeNums,
          d \in BOOLEAN : update_video_show_episode(v, n, e, d)

Spec == InitStore /\ [][Next]_vars

(***************************************************************************)
(* Properties of the ingestion store.                                      *)
(***************************************************************************)
\* The (source, views) mapping m as the traffic_sources rows of video v.
SourcesAsRows(v, m) ==
    SetToBag({[video_id |-> v, traffic_source |-> s, views |-> m[s]] :
                 s \in DOMAIN m})

SavedOk == pc = "done" /\ call.op = "save"

\* C1: after any sequence of save_video_stats_db calls there is at most one
\* row per video_id, a saved video has its row, the row of the video saved
\* last carries the view_count that call passed, and no step removes a row,
\* changes its id, or changes the view_count of a video other than the one
\* a save has just written: a later save updates the row the first inserted.
C1_OneRowLatestViews ==
    /\ [](/\ \A v \in VideoIds : Cardinality(RowsOf(video_stats, v)) <= 1
          /\ SavedOk =>
                \E r \in video_stats :
                    /\ r.video_id = call.video_id
                    /\ r.view_count = call.stats.view_count)
    /\ [][\A r \in video_stats :
             \E r2 \in video_stats' :
                 /\ r2.id = r.id
                 /\ r2.video_id = r.video_id
                 /\ r2.view_count # r.view_count =>
                        /\ pc' = "done"
                        /\ call'.op = "save"
                        /\ call'.video_id = r.video_id
                        /\ r2.view_count = call'.stats.view_count]_vars

\* C1 witness: both videos are stored, and the video saved last was saved
\* before, at an earlier time and with another view count.
C1_Witness ==
    /\ SavedOk
    /\ Cardinality(video_stats) = 2
    /\ \E r \in video_stats :
          /\ r.video_id = call.video_id
          /\ r.show = None
          /\ r.collected_at < r.last_updated
          /\ r.view_count = 200

\* C2: after every successful save_video_stats_db(v, sources) the
\* traffic_sources rows of v are exactly the pairs of sources, also when
\* sources is empty.
C2_TrafficExactlyAsReported ==
    SavedOk =>
        TrafficRowsOf(traffic_sources, call.video_id)
            = SourcesAsRows(call.video_id, call.traffic_sources)

\* C5: the collected_at of a video row never changes once the row is there,
\* whatever save_video_stats_db or update_video_show_episode does later.
C5_CollectedAtFixed ==
    [][\A r \in video_stats :
          \E r2 \in video_stats' :
              /\ r2.video_id = r.video_id
              /\ r2.collected_at = r.collected_at]_vars

\* C5 witness: a video inserted at an earlier time has since been re-saved
\* and given a show, and still carries its first collected_at.
C5_Witness ==
    \E r \in video_stats :
        /\ r.show # None
        /\ r.view_count = 200
        /\ r.collected_at = 0
        /\ r.last_updated = 1

\* C6: every write stamps last_updated with the current time: a row that
\* appears has collected_at = last_updated = the time of the insert, a row
\* that changes has last_updated = the time of the change, the row of the
\* video saved last has last_updated = the time of that call, last_updated
\* never decreases, and collected_at <= last_updated in every state.
C6_LastUpdatedStamped ==
    /\ [](/\ \A r \in video_stats :
                r.collected_at <= r.last_updated /\ r.last_updated <= now
          /\ SavedOk =>
                \A r \in RowsOf(video_stats, call.video_id) :
                    r.last_updated = call.at)
    /\ [][\A v \in VideoIds :
             LET old == RowsOf(video_stats, v)
                 new == RowsOf(video_stats', v)
             IN /\ new # old =>
                     \A r2 \in new :
                         /\ r2.last_updated = now
                         /\ old = {} => r2.collected_at = now
                /\ \A r \in old, r2 \in new :
                       r.last_updated <= r2.last_updated]_vars

\* C6 witness: a video inserted at time 0 was saved again at time 1.
C6_Witness ==
    /\ SavedOk
    /\ call.at = 1
    /\ \E r \in video_stats :
          /\ r.video_id = call.video_id
          /\ r.collected_at = 0
          /\ r.last_updated = 1
          /\ Cardinality(video_stats) = 2


(***************************************************************************)
(* save_video_stats_db statement by statement, with the failures and the   *)
(* crashes that can end it early (TxSpec).  pc: "open" after connect(),    *)
(* "wrote" after the video-row write, "inserting" after the DELETE.        *)
(***************************************************************************)
InFlight == pc \in {"open", "wrote", "inserting"}

\* with sqlite3.connect(self.db_path) as conn
TxBegin(s, sources) ==
    /\ Resting
    /\ call' = SaveCall(s, sources)
    /\ pc' = "open"
    /\ tx_video_stats' = video_stats
    /\ tx_traffic_sources' = traffic_sources
    /\ pending' = {}
    /\ UNCHANGED <<db_vars, beside_store>>

\* SELECT id ...; then UPDATE or INSERT of the video row.
TxWriteVideo ==
    LET w == write_video_row(tx_video_stats, call.stats, now)
    IN /\ pc = "open"
       /\ IF w.ok
          THEN /\ tx_video_stats' = w.table
               /\ video_stats' = after_statement(video_stats, w.table)
               /\ pc' = "wrote"
          ELSE /\ tx_video_stats' = {}
               /\ pc' = "failed"
               /\ UNCHANGED video_stats
       /\ tx_traffic_sources' = IF w.ok THEN tx_traffic_sources ELSE EmptyBag
       /\ UNCHANGED <<traffic_sources, now, call, pending, beside_store>>

\* if traffic_sources: DELETE FROM traffic_sources WHERE video_id = ?
TxDelete ==
    LET d == delete_traffic_sources(tx_traffic_sources, call.video_id)
    IN /\ pc = "wrote"
       /\ DOMAIN call.traffic_sources # {}
       /\ tx_traffic_sources' = d
       /\ traffic_sources' = after_statement(traffic_sources, d)
       /\ pending' = DOMAIN call.traffic_sources
       /\ pc' = "inserting"
       /\ UNCHANGED <<video_stats, now, call, tx_video_stats, beside_store>>

\* One pass of the INSERT loop.
TxInsert ==
    /\ pc = "inserting"
    /\ \E s \in pending :
          LET i == insert_traffic_source(tx_traffic_sources, call.video_id, s,
                                         call.traffic_sources[s])
          IN /\ tx_traffic_sources' = i
             /\ traffic_sources' = after_statement(traffic_sources, i)
             /\ pending' = pending \ {s}
    /\ UNCHANGED <<video_stats, now, pc, call, tx_video_stats, beside_store>>

\* conn.commit(): the connection's view becomes the committed state.
TxCommit ==
    /\ \/ pc = "wrote" /\ DOMAIN call.traffic_sources = {}
       \/ pc = "inserting" /\ pending = {}
    /\ video_stats' = tx_video_stats
    /\ traffic_sources' = tx_traffic_sources
    /\ pc' = "done"
    /\ tx_video_stats' = {}
    /\ tx_traffic_sources' = EmptyBag
    /\ pending' = {}
    /\ UNCHANGED <<now, call, beside_store>>

\* An exception inside the with-block: the connection's __exit__ rolls the
\* open transaction back.
TxRaise ==
    /\ InFlight
    /\ pc' = "failed"
    /\ UNCHANGED <<db_vars, call, tx_video_stats, tx_traffic_sources, pending,
                   beside_store>>

\* The process dies: SQLite discards the uncommitted transaction when the
\* database is next opened.
TxCrash ==
    /\ InFlight
    /\ pc' = "crashed"
    /\ UNCHANGED <<db_vars, call, tx_video_stats, tx_traffic_sources, pending,
                   beside_store>>

TxNext ==
    \/ Tick
    \/ \E s \in StatsInputs, m \in TrafficInputs : TxBegin(s, m)
    \/ TxWriteVideo
    \/ TxDelete
    \/ TxInsert
    \/ TxCommit
    \/ TxRaise
    \/ TxCrash

TxSpec == InitStore /\ [][TxNext]_vars

CaptionSpec == InitStore /\ [][CaptionNext]_vars

(***************************************************************************)
(* The channel ingestion (youtube_client.py, get_channel_video_stats with   *)
(* the save_callback of cli.py).                                           *)
(***************************************************************************)
\* How many videos get_channel_videos returns at most.
MaxVideos == 2
VideoLists == UNION {[1..n -> VideoIds] : n \in 0..MaxVideos}

\* One entry of the log of a call: what was done for the item at a position.
Event(what) == [item |-> g_item, video_id |-> videos[g_item], what |-> what]

\* The loop moves to the next video, or the call returns saved_count.
NextVideo ==
    /\ g_item' = g_item + 1
    /\ g_pc' = IF g_item + 1 > Len(videos) THEN "returned" ELSE "stats"
    /\ fetched_stats' = None
    /\ fetched_sources' = NoSources

\* YouTubeClient.get_channel_video_stats is called, by the ingest command,
\* which calls it once, and get_channel_videos has returned the list.
get_channel_video_stats(ids) ==
    /\ g_pc = "idle"
    /\ b_pc = "idle"
    /\ videos' = ids
    /\ g_item' = 1
    /\ saved_count' = 0
    /\ events' = <<>>
    /\ g_pc' = IF ids = <<>> THEN "returned" ELSE "stats"
    /\ UNCHANGED <<fetched_stats, fetched_sources, store_vars, beside_ingest>>

\* video_stats = self.get_video_stats(video['video_id']): the stats, or
\* ValueError (no such video), or Exception for an HttpError
IngestStats ==
    /\ g_pc = "stats"
    /\ events' = Append(events, Event("videos.list"))
    /\ \/ \E p \in Ingested :
             /\ fetched_stats' = Some([video_id |-> videos[g_item],
                                       title |-> p[1], view_count |-> p[2]])
             /\ g_pc' = "analytics"
       \/ g_pc' = "except" /\ UNCHANGED fetched_stats
    /\ UNCHANGED <<videos, g_item, fetched_sources, saved_count, store_vars,
                   beside_ingest>>

\* traffic_sources = {}; with include_analytics and self.analytics,
\* self.get_video_analytics(...): the reported sources, {} after an
\* HttpError, or another exception out of it
IngestAnalytics ==
    /\ g_pc = "analytics"
    /\ \/ /\ fetched_sources' = NoSources
          /\ g_pc' = "save"
          /\ UNCHANGED events
       \/ /\ events' = Append(events, Event("reports.query"))
          /\ \/ \E m \in TrafficInputs :
                   fetched_sources' = m /\ g_pc' = "save"
             \/ g_pc' = "except" /\ UNCHANGED fetched_sources
    /\ UNCHANGED <<videos, g_item, fetched_stats, saved_count, store_vars,
                   beside_ingest>>

\* save_callback(video_data): storage.save_video_stats_db(stats,
\* traffic_sources) commits and saved_count += 1, or it raises and the
\* inner except prints a warning.
IngestSave ==
    LET s == fetched_stats[1]
        w == write_video_row(video_stats, s, now)
    IN /\ g_pc = "save"
       /\ Resting
       /\ \/ /\ w.ok
             /\ call' = SaveCall(s, fetched_sources)
             /\ pc' = "done"
             /\ video_stats' = w.table
             /\ traffic_sources' =
                    replace_traffic_sources(traffic_sources, s.video_id,
                                            fetched_sources)
             /\ saved_count' = saved_count + 1
             /\ events' = Append(events, Event("saved"))
          \/ /\ call' = [op |-> "save", video_id |-> s.video_id]
             /\ pc' = "failed"
             /\ events' = Append(events, Event("save failed"))
             /\ UNCHANGED <<video_stats, traffic_sources, saved_count>>
       /\ NextVideo
       /\ UNCHANGED <<videos, now, tx_video_stats, tx_traffic_sources,
                      pending, beside_ingest>>

\* The outer except clause ending the loop instead of continuing it.
IngestExcept_break ==
    /\ g_pc = "except"
    /\ g_pc' = "returned"
    /\ UNCHANGED <<videos, g_item, fetched_stats, fetched_sources,
                   saved_count, events, store_vars, beside_ingest>>

\* except Exception as e: print(...); continue
IngestExcept ==
    /\ g_pc = "except"
    /\ NextVideo
    /\ UNCHANGED <<videos, saved_count, events, store_vars, beside_ingest>>

\* A process runs caption batches or ingestions.
LoopNext ==
    \/ \E ids \in BatchInputs, f \in Formats : download_captions_batch(ids, f)
    \/ BatchCheck
    \/ BatchTitle
    \/ BatchFind
    \/ BatchDownload
    \/ BatchSave
    \/ BatchExcept
    \/ \E ids \in VideoLists : get_channel_video_stats(ids)
    \/ IngestStats
    \/ IngestAnalytics
    \/ IngestSave
    \/ IngestExcept

LoopSpec == InitStore /\ [][LoopNext]_vars

\* The statements of a running call are executed one after the other: a
\* call that has started goes on until it returns.
BatchStep ==
    BatchCheck \/ BatchTitle \/ BatchFind \/ BatchDownload \/ BatchSave
        \/ BatchExcept

IngestStep == IngestStats \/ IngestAnalytics \/ IngestSave \/ IngestExcept

LoopFairSpec == LoopSpec /\ WF_vars(BatchStep) /\ WF_vars(IngestStep)

(***************************************************************************)
(* The commands video-stats (sqlite output) and update-shows (cli.py) with *)
(* ShowMapper.process_videos (show_mapper.py).                             *)
(***************************************************************************)
\* What the video-stats command ingests: the titles are those of the
\* matcher.  Video x is reported as "S 7" with 100 views or, retitled, as
\* "Q" with 200 views; video y as "Q" with 200 views.
RunInputs ==
    {[video_id |-> <<"x">>, title |-> <<"S", " ", "7">>, view_count |-> 100],
     [video_id |-> <<"x">>, title |-> <<"Q">>, view_count |-> 200],
     [video_id |-> <<"y">>, title |-> <<"Q">>, view_count |-> 200]}
RunSources == {NoSources, [s \in {"A"} |-> 12]}

\* The rule lists a loadable show_patterns.yaml holds: one rule that takes
\* the show from group 1 and the episode from the digits ("S 7" gives S, 7,
\* "Q" no match); one rule with a static name for every title; one rule
\* whose show group takes no part in the match, so that "S 7" raises.
StaticRuleList ==
    <<Rule(TRUE, Some("(\\W|Q)"), Some(<<"N">>), None,
           [episode_regex |-> None, episode_group |-> 1])>>
RunRuleLists ==
    {StaticRuleList,
     <<Rule(TRUE, Some("^(S\\s)(x)?\\d"), None, Some(1),
            [episode_regex |-> Some("(\\d+)"), episode_group |-> 1])>>,
     <<Rule(TRUE, Some("^(S\\s)(x)?\\d"), None, Some(2),
            [episode_regex |-> None, episode_group |-> 1])>>}

\* The config file as ShowMapper._load_config finds it: absent
\* (FileNotFoundError), no YAML (ValueError), or loaded, with its
\* show_patterns and options.update_only_empty (true by default; the file
\* that sets it to false holds the static rule).
Unloadable(error) == [loadable |-> FALSE, error |-> error]
Loaded(rules, update_only_empty) ==
    [loadable |-> TRUE, error |-> "", show_patterns |-> rules,
     update_only_empty |-> update_only_empty]
LoadedConfigs ==
    {Loaded(r, TRUE) : r \in RunRuleLists} \cup {Loaded(StaticRuleList, FALSE)}
ConfigFiles ==
    {Unloadable("FileNotFoundError"), Unloadable("ValueError")}
        \cup LoadedConfigs

\* show IS NULL OR show = ''
ShowEmpty(r) == r.show = None \/ r.show = Some(<<>>)

\* episode_num IS NULL OR episode_num = 0
EpisodeEmpty(r) == r.episode_num = None \/ r.episode_num = Some(0)

\* A faulty variant of get_videos_to_update below: update_only_empty is not
\* looked at.
get_all_videos_to_update(table, update_only_empty) ==
    {r \in table : r.exclude_from_stats = 0}

\* ShowMapper.get_videos_to_update: the rows the query selects.
get_videos_to_update(table, update_only_empty) ==
    IF update_only_empty
    THEN {r \in table : /\ ShowEmpty(r)
                        /\ EpisodeEmpty(r)
                        /\ r.exclude_from_stats = 0}
    ELSE {r \in table : r.exclude_from_stats = 0}

\* cursor.fetchall(): the selected rows in the order of the query.  The
\* upload times are not modelled, so the order is any.
Fetched_all(rows) ==
    {o \in [1..Cardinality(rows) -> rows] :
        \A j, k \in DOMAIN o : j # k => o[j] # o[k]}

\* A faulty variant of write_show_episode below: dry_run is not looked at.
write_show_episode_always(table, v, show_name, episode_num, t, dry_run) ==
    set_show_episode(table, v, show_name, episode_num, t)

\* ShowMapper.update_video_show_episode: if dry_run: return; else the UPDATE
\* and commit.
write_show_episode(table, v, show_name, episode_num, t, dry_run) ==
    IF dry_run THEN table
    ELSE set_show_episode(table, v, show_name, episode_num, t)

NewMappingStats ==
    [total_processed |-> 0, shows_mapped |-> 0, episodes_mapped |-> 0,
     no_match |-> 0]

\* The loop of process_videos over the fetched rows still to handle: the
\* table and the stats it returns, or the exception _extract_show_episode
\* raised and the table as the videos before it left it.
RECURSIVE process_loop(_, _, _, _, _, _)
process_loop(todo, table, rules, dry_run, t, counts) ==
    IF todo = <<>>
    THEN [kind |-> "return", stats |-> counts, error |-> "", table |-> table]
    ELSE LET v == Head(todo)
             e == _extract_show_episode(rules, v.title)
             counted == [counts EXCEPT !.total_processed = @ + 1]
         IN IF e.kind = "raise"
            THEN [kind |-> "raise", stats |-> counted, error |-> e.error,
                  table |-> table]
            ELSE IF Truthy(e.show)
            THEN process_loop(
                     Tail(todo),
                     write_show_episode(table, v.video_id, e.show[1],
                                        e.episode_num, t, dry_run),
                     rules, dry_run, t,
                     [counted EXCEPT
                          !.shows_mapped = @ + 1,
                          !.episodes_mapped =
                              IF e.episode_num # None THEN @ + 1 ELSE @])
            ELSE process_loop(Tail(todo), table, rules, dry_run, t,
                              [counted EXCEPT !.no_match = @ + 1])

\* ShowMapper.process_videos on the rows fetched.
process_videos(fetched, table, config, dry_run, t) ==
    process_loop(fetched, table, config.show_patterns, dry_run, t,
                 NewMappingStats)

\* What the caller of process_videos gets: the stats, or the exception.
Outcome(result) ==
    IF result.kind = "return"
    THEN [kind |-> "return", stats |-> result.stats]
    ELSE [kind |-> "raise", error |-> result.error]

RunResting == run.phase \in {"none", "finished", "aborted"}

\* The video-stats command with sqlite output starts to ingest a channel.
video_stats_command(config) ==
    /\ RunResting
    /\ run' = [command |-> "video-stats", config |-> config,
               dry_run |-> FALSE, phase |-> "ingest", saved_count |-> 0]
    /\ UNCHANGED <<store_vars, beside_run>>

\* save_callback(video_data): storage.save_video_stats_db(video_stats,
\* traffic_sources) for the next video of the channel; saved_count += 1.
RunSave(s, sources) ==
    LET w == write_video_row(video_stats, s, now)
    IN /\ run.phase = "ingest"
       /\ run.saved_count < MaxVideos
       /\ w.ok
       /\ video_stats' = w.table
       /\ traffic_sources' =
              replace_traffic_sources(traffic_sources, s.video_id, sources)
       /\ run' = [run EXCEPT !.saved_count = @ + 1]
       /\ UNCHANGED <<now, tx_vars, beside_run>>

\* if output == 'sqlite' and saved_count > 0: ShowMapper(...) and
\* process_videos(dry_run=False); FileNotFoundError and ValueError are
\* caught ("skipping mapping"), and so is any other exception.
RunMapping ==
    /\ run.phase = "ingest"
    /\ run' = [run EXCEPT !.phase = "finished"]
    /\ IF run.saved_count > 0 /\ run.config.loadable
       THEN \E fetched \in Fetched_all(get_videos_to_update(
                               video_stats, run.config.update_only_empty)) :
                video_stats' = process_videos(fetched, video_stats,
                                              run.config, FALSE, now).table
       ELSE UNCHANGED video_stats
    /\ UNCHANGED <<traffic_sources, now, tx_vars, beside_run>>

\* The update-shows command: ShowMapper(config_path), process_videos and
\* the summary; any exception is reported and ends in click.Abort().
update_shows(config, dry_run) ==
    /\ RunResting
    /\ IF config.loadable
       THEN \E fetched \in Fetched_all(get_videos_to_update(
                               video_stats, config.update_only_empty)) :
                LET result == process_videos(fetched, video_stats, config,
                                             dry_run, now)
                IN /\ video_stats' = result.table
                   /\ run' = [command |-> "update-shows",
                              config |-> config, dry_run |-> dry_run,
                              phase |-> IF result.kind = "return"
                                        THEN "finished" ELSE "aborted",
                              saved_count |-> 0]
       ELSE /\ run' = [command |-> "update-shows", config |-> config,
                       dry_run |-> dry_run, phase |-> "aborted",
                       saved_count |-> 0]
            /\ UNCHANGED video_stats
    /\ UNCHANGED <<traffic_sources, now, tx_vars, beside_run>>

RunNext ==
    \/ \E c \in ConfigFiles : video_stats_command(c)
    \/ \E s \in RunInputs, m \in RunSources : RunSave(s, m)
    \/ RunMapping
    \/ \E c \in ConfigFiles, d \in BOOLEAN : update_shows(c, d)

RunSpec == InitStore /\ [][RunNext]_vars

(***************************************************************************)
(* The store under saves, mapper runs and the operator's exclusions.       *)
(***************************************************************************)
\* mapper.process_videos(dry_run) called on its own, with a loaded config.
ProcessVideos(config, dry_run) ==
    /\ Resting
    /\ \E fetched \in Fetched_all(get_videos_to_update(
                            video_stats, config.update_only_empty)) :
           LET result == process_videos(fetched, video_stats, config,
                                        dry_run, now)
           IN /\ video_stats' = result.table
              /\ call' = [op |-> "process_videos", config |-> config,
                          dry_run |-> dry_run, outcome |-> Outcome(result)]
              /\ pc' = IF result.kind = "return" THEN "done" ELSE "failed"
    /\ UNCHANGED <<traffic_sources, now, tx_video_stats, tx_traffic_sources,
                   pending, beside_store>>

\* The operator excludes a video: exclude_from_stats is set by hand, no
\* command writes it.
OperatorExcludes(v) ==
    /\ Resting
    /\ \E r \in video_stats : r.video_id = v /\ r.exclude_from_stats = 0
    /\ video_stats' = {IF r.video_id = v
                       THEN [r EXCEPT !.exclude_from_stats = 1]
                       ELSE r : r \in video_stats}
    /\ call' = [op |-> "exclude", video_id |-> v]
    /\ pc' = "done"
    /\ UNCHANGED <<traffic_sources, now, tx_video_stats, tx_traffic_sources,
                   pending, beside_store>>

ShowNext ==
    \/ Tick
    \/ \E s \in RunInputs, m \in RunSources : save_video_stats_db(s, m)
    \/ \E c \in LoadedConfigs, d \in BOOLEAN : ProcessVideos(c, d)
    \/ \E v \in VideoIds : OperatorExcludes(v)

ShowSpec == InitStore /\ [][ShowNext]_vars

(***************************************************************************)
(* The ingestion with save_video_stats_db taken statement by statement,    *)
(* in a process that may die at any point (CrashSpec).                     *)
(***************************************************************************)
\* save_callback(video_data) enters save_video_stats_db: the connection is
\* opened on the committed database.
IngestSaveBegin ==
    /\ g_pc = "save"
    /\ Resting
    /\ call' = SaveCall(fetched_stats[1], fetched_sources)
    /\ pc' = "open"
    /\ tx_video_stats' = video_stats
    /\ tx_traffic_sources' = traffic_sources
    /\ pending' = {}
    /\ g_pc' = "saving"
    /\ UNCHANGED <<db_vars, videos, g_item, fetched_stats, fetched_sources,
                   saved_count, events, beside_ingest>>

\* The log entry of a counted save: what was committed for the item.
SavedEvent ==
    [item |-> g_item, video_id |-> videos[g_item], what |-> "saved",
     stats |-> call.stats, traffic_sources |-> call.traffic_sources]

\* save_callback has returned: saved_count += 1, and the loop goes on.
IngestSaved ==
    /\ g_pc = "saving"
    /\ pc = "done"
    /\ saved_count' = saved_count + 1
    /\ events' = Append(events, SavedEvent)
    /\ NextVideo
    /\ UNCHANGED <<videos, store_vars, beside_ingest>>

\* save_callback has raised: the inner except prints a warning, and the
\* loop goes on.
IngestSaveFailed ==
    /\ g_pc = "saving"
    /\ pc = "failed"
    /\ events' = Append(events, Event("save failed"))
    /\ NextVideo
    /\ UNCHANGED <<videos, saved_count, store_vars, beside_ingest>>

\* The process dies between two statements of the loop, outside of a
\* transaction.
IngestCrash ==
    /\ \/ g_pc \in {"stats", "analytics", "save", "except"}
       \/ g_pc = "saving" /\ pc \in {"done", "failed"}
    /\ g_pc' = "crashed"
    /\ UNCHANGED <<videos, g_item, fetched_stats, fetched_sources,
                   saved_count, events, store_vars, beside_ingest>>

CrashNext ==
    \/ \E ids \in VideoLists : get_channel_video_stats(ids)
    \/ IngestStats
    \/ IngestAnalytics
    \/ IngestSaveBegin
    \/ TxWriteVideo
    \/ TxDelete
    \/ TxInsert
    \/ TxCommit
    \/ TxRaise
    \/ TxCrash
    \/ IngestSaved
    \/ IngestSaveFailed
    \/ IngestExcept
    \/ IngestCrash

CrashSpec == InitStore /\ [][CrashNext]_vars

(***************************************************************************)
(* YouTubeClient.get_channel_videos: the pagination over the uploads       *)
(* playlist (PageSpec, PageFairSpec).                                      *)
(***************************************************************************)
\* The largest max_results a call is made with, and by how many items a page
\* of the provider may exceed the count requested.
MaxResults == 52
MaxOver == 1

\* maxResults of playlistItems.list is at most 50.
PageCap == 50

\* A faulty variant of per_page below: always a full page.
per_page_uncapped(max_results, collected) == PageCap

\* per_page = min(50, max_results - len(videos))
per_page(max_results, collected) == Min(PageCap, max_results - collected)

\* The items of a page of n items: the provider hands its items out
\* numbered in the order it returns them.
PageItems(served, n) == [i \in 1..n |-> served + i]

\* get_channel_videos(max_results=m) up to the loop: channels.list gives
\* the uploads playlist, or no item (ValueError), or an HttpError (raised
\* again as Exception).
get_channel_videos(m) ==
    /\ listing.pc = "idle"
    /\ \/ listing' = [NoListing EXCEPT !.pc = "while", !.max_results = m]
       \/ \E e \in {"ValueError", "Exception"} :
              listing' = [NoListing EXCEPT !.pc = "raised",
                                           !.max_results = m, !.error = e]
    /\ UNCHANGED beside_listing

\* while len(videos) < max_results: per_page = min(50, ...); after the loop,
\* return videos.
PageWhile ==
    /\ listing.pc = "while"
    /\ listing' =
           IF Len(listing.videos) < listing.max_results
           THEN [listing EXCEPT
                     !.pc = "request",
                     !.per_page = per_page(listing.max_results,
                                           Len(listing.videos))]
           ELSE [listing EXCEPT !.pc = "returned"]
    /\ UNCHANGED beside_listing

\* The rest of the loop body: playlistItems.list(maxResults=per_page,
\* pageToken=next_page_token) raises an HttpError, or returns a page, whose
\* items are appended; then break without a nextPageToken, break after a
\* page shorter than per_page, else the next pass.
PageFetch ==
    /\ listing.pc = "request"
    /\ \/ listing' = [listing EXCEPT !.pc = "raised", !.error = "Exception"]
       \/ \E n \in 0..(listing.per_page + MaxOver),
             token \in {None, Some("t")} :
              LET page == PageItems(Len(listing.provided), n)
              IN listing' =
                     [listing EXCEPT
                          !.page_videos = page,
                          !.videos = listing.videos \o page,
                          !.page_count = listing.page_count + 1,
                          !.next_page_token = token,
                          !.provided = listing.provided \o page,
                          !.within = listing.within /\ n <= listing.per_page,
                          !.pc = IF token = None THEN "returned"
                                 ELSE IF n < listing.per_page THEN "returned"
                                 ELSE "while"]
    /\ UNCHANGED beside_listing

PageNext ==
    \/ \E m \in 0..MaxResults : get_channel_videos(m)
    \/ PageWhile
    \/ PageFetch

PageSpec == InitStore /\ [][PageNext]_vars

\* The statements of a call are executed one after the other, and a request
\* to the provider returns or raises.
PageStep == PageWhile \/ PageFetch

PageFairSpec == PageSpec /\ WF_vars(PageStep)

InitMatcher ==
    StoreStart /\ CaptionStart /\ MatcherInit /\ PureStart /\ CommandStart
MatcherSpec == InitMatcher /\ [][MatcherNext]_vars

InitShort ==
    /\ StoreStart /\ CaptionStart /\ MatcherStart /\ CommandStart
    /\ ShortInit /\ VttStart
ShortSpec == InitShort /\ [][ShortNext]_vars

InitVtt ==
    /\ StoreStart /\ CaptionStart /\ MatcherStart /\ CommandStart
    /\ ShortStart /\ VttInit
VttSpec == InitVtt /\ [][VttNext]_vars

\* C3: when the stored traffic rows of a video are those of a non-empty
\* mapping S1 and a save of that video with a non-empty mapping S2, whose
\* sources are a strict subset of S1's, commits, the video's rows are then
\* exactly one row per source of S2 with S2's views: no source of S1 that is
\* not in S2 keeps a row.
C3_ShrinkingReplacement ==
    [][(/\ InFlight
        /\ pc' = "done"
        /\ DOMAIN call.traffic_sources # {}
        /\ \E S1 \in TrafficInputs :
              /\ TrafficRowsOf(traffic_sources, call.video_id)
                     = SourcesAsRows(call.video_id, S1)
              /\ DOMAIN call.traffic_sources \subseteq DOMAIN S1
              /\ DOMAIN call.traffic_sources # DOMAIN S1)
       => TrafficRowsOf(traffic_sources', call.video_id)
              = SourcesAsRows(call.video_id, call.traffic_sources)]_vars

\* C3 witness: {A: 10, B: 5} is stored for the video and the re-ingestion of
\* {A: 12} has written its rows and is about to commit.
C3_Witness ==
    /\ pc = "inserting"
    /\ pending = {}
    /\ DOMAIN call.traffic_sources = {"A"}
    /\ call.traffic_sources["A"] = 12
    /\ TrafficRowsOf(traffic_sources, call.video_id)
           = SourcesAsRows(call.video_id,
                           [s \in {"A", "B"} |-> IF s = "A" THEN 10 ELSE 5])
    /\ TrafficRowsOf(tx_traffic_sources, call.video_id)
           = SourcesAsRows(call.video_id, call.traffic_sources)

\* C4: save_video_stats_db is all-or-nothing.  The committed tables change
\* only in the step that commits, never in a step that ends the call with
\* an exception or a crash, nor between its statements; and the commit
\* installs the video row and the new traffic rows together.
C4_AllOrNothing ==
    [][/\ pc' \in {"open", "wrote", "inserting", "failed", "crashed"} =>
              /\ video_stats' = video_stats
              /\ traffic_sources' = traffic_sources
       /\ (video_stats' # video_stats \/ traffic_sources' # traffic_sources)
            => /\ InFlight
               /\ pc' = "done"
               /\ \E r \in video_stats' :
                      /\ r.video_id = call.video_id
                      /\ r.view_count = call.stats.view_count
               /\ DOMAIN call.traffic_sources # {} =>
                      TrafficRowsOf(traffic_sources', call.video_id)
                          = SourcesAsRows(call.video_id,
                                          call.traffic_sources)]_vars

\* C4 witness: a re-ingestion has crashed after its DELETE and before its
\* INSERT (the lost transaction held an updated video row and no traffic row
\* of the video), and the committed rows are still the old ones.
C4_Witness ==
    /\ pc = "crashed"
    /\ call.op = "save"
    /\ DOMAIN call.traffic_sources = {"A"}
    /\ pending = {"A"}
    /\ TrafficRowsOf(tx_traffic_sources, call.video_id) = EmptyBag
    /\ \E r \in tx_video_stats :
          /\ r.video_id = call.video_id
          /\ r.view_count = call.stats.view_count
    /\ \E r \in video_stats :
          /\ r.video_id = call.video_id
          /\ r.view_count # call.stats.view_count
    /\ TrafficRowsOf(traffic_sources, call.video_id)
           = SourcesAsRows(call.video_id,
                           [s \in {"A", "B"} |-> IF s = "A" THEN 10 ELSE 5])

(***************************************************************************)
(* Properties of the caption downloader.                                   *)
(***************************************************************************)
\* The directory holds a file named *_<video_id>.<format>.
MatchingFile(fs, v, f) ==
    \E n \in DOMAIN fs :
        \E k \in 0..Len(n) :
            SubSeq(n, k + 1, Len(n)) = <<"_">> \o v \o <<".">> \o f

\* A step that sends a request to the provider.
RequestMade == Len(requests') > Len(requests)

\* C7: when download_captions_batch reaches an item whose video id has a
\* file *_<video_id>.<format> in the directory, no request has been made for
\* that item, and the item ends in that step: no request is made, no file
\* is written or changed, skipped is incremented and nothing else of stats
\* changes, and the loop moves on.
C7_ExistingFileSkipsEverything ==
    /\ [](b_pc = "check" =>
             \A k \in 1..Len(requests) : requests[k].item < item)
    /\ [][(b_pc = "check" /\ MatchingFile(files, video_id, format)) =>
             /\ requests' = <<>>
             /\ files' = files
             /\ stats' = [stats EXCEPT !.skipped = @ + 1]
             /\ item' = item + 1
             /\ b_pc' \in {"check", "returned"}]_vars

\* C7 witness: the second item of a call was skipped because the first item
\* had just saved the file of the same video id.
C7_Witness ==
    /\ b_pc = "returned"
    /\ Len(video_ids) = 2
    /\ video_ids[1] = video_ids[2]
    /\ stats.successful = 1
    /\ stats.skipped = 1
    /\ requests = <<>>
    /\ MatchingFile(files, video_ids[2], format)

\* C8 as stated: whenever a video id and format have been handled before,
\* handling them again makes no request to the provider.
C8_SecondCallNeverRequests ==
    [][RequestMade =>
          \A o \in {"saved", "other"} :
              <<video_id, format, o>> \notin handled]_vars

\* C8 as amended: once download_captions_batch has saved the caption file of
\* a video id and format, handling that video id and format again makes no
\* request to the provider.
C8_NoRequestAfterSave ==
    [][RequestMade => <<video_id, format, "saved">> \notin handled]_vars

\* C8 witness: a call for one video id, whose file an earlier call saved,
\* has returned with the item skipped and no request made.
C8_Witness ==
    /\ b_pc = "returned"
    /\ Len(video_ids) = 1
    /\ <<video_ids[1], format, "saved">> \in handled
    /\ stats.skipped = 1
    /\ stats.successful = 0
    /\ requests = <<>>

\* C9: a caption file is never overwritten.  In every reachable directory,
\* save_caption with arguments whose derived name is already there returns
\* None and leaves the directory as it is; and no step of save_caption or
\* of a batch run removes a file or changes the content of one.
C9_NeverOverwritten ==
    /\ [](\A c \in Contents, v \in VideoIds, t \in Titles, f \in Formats :
             caption_filename(t, v, f) \in DOMAIN files =>
                 save_caption(files, c, v, t, f)
                     = [path |-> None, files |-> files])
    /\ [][\A n \in DOMAIN files :
             n \in DOMAIN files' /\ files'[n] = files[n]]_vars

\* C9 witness: save_caption has just returned None, and the directory holds
\* two files of one video id (two titles) with different contents.
C9_Witness ==
    /\ save_result.called
    /\ save_result.path = None
    /\ \E n1, n2 \in DOMAIN files :
          /\ n1 # n2
          /\ files[n1] # files[n2]
          /\ \E v \in VideoIds, f \in Formats :
                 /\ EndsWith(n1, <<"_">> \o v \o <<".">> \o f)
                 /\ EndsWith(n2, <<"_">> \o v \o <<".">> \o f)

(***************************************************************************)
(* Properties of the matcher.                                              *)
(***************************************************************************)
\* The rule is enabled, its title expression matches the title, and the
\* show name it yields is a non-empty text.
Resolves(pattern, t) ==
    /\ pattern.enabled
    /\ pattern.title_regex # None
    /\ re_search(pattern.title_regex[1], t).matched
    /\ LET show_name ==
               show_name_of(pattern, re_search(pattern.title_regex[1], t))
       IN show_name.raised = "" /\ Truthy(show_name.value)

FirstResolving(k) ==
    /\ Resolves(patterns[k], call_title)
    /\ \A j \in 1..(k - 1) : ~Resolves(patterns[j], call_title)

\* C10: after a call of _extract_show_episode, for every rule k of the list
\* that resolves a show name the outcome of the call is the outcome for the
\* list cut after rule k, so no rule behind k has any influence; and when
\* k is the first such rule and the call returned, the returned show and
\* episode are the ones rule k yields.
C10_FirstResolvingRuleWins ==
    extracted.kind # "none" =>
        \A k \in 1..Len(patterns) :
            /\ Resolves(patterns[k], call_title) =>
                   extracted = _extract_show_episode(SubSeq(patterns, 1, k),
                                                    call_title)
            /\ (FirstResolving(k) /\ extracted.kind = "return") =>
                   LET m == re_search(patterns[k].title_regex[1], call_title)
                   IN /\ extracted.show = show_name_of(patterns[k], m).value
                      /\ extracted.episode_num
                             = episode_num_of(patterns[k], call_title).value

\* C10 witness: two enabled rules both match the title and resolve
\* different show names, with different episodes, and the call returned the
\* show and the episode of the earlier one.
C10_Witness ==
    /\ extracted.kind = "return"
    /\ Len(patterns) = 2
    /\ Resolves(patterns[1], call_title)
    /\ Resolves(patterns[2], call_title)
    /\ _extract_show_episode(<<patterns[2]>>, call_title).kind = "return"
    /\ _extract_show_episode(<<patterns[2]>>, call_title).show
           # extracted.show
    /\ _extract_show_episode(<<patterns[2]>>, call_title).episode_num
           # extracted.episode_num
    /\ extracted.show = Some(<<"S">>)
    /\ extracted.episode_num = Some(7)

\* The rule is passed over before its show name is looked at: it is
\* disabled, has no title expression, or the expression does not match.
PassedOver(pattern, t) ==
    \/ ~pattern.enabled
    \/ pattern.title_regex = None
    \/ ~re_search(pattern.title_regex[1], t).matched

\* The rule's title expression matches and its show_group is beyond the
\* groups of the match.
ShowGroupOutOfRange(pattern, t) ==
    /\ ~PassedOver(pattern, t)
    /\ HasShowGroup(pattern)
    /\ Len(re_search(pattern.title_regex[1], t).groups)
           < pattern.show_group[1]

\* C11 as stated: when rule k matches the title with its show group out of
\* range, the rules before it are passed over, and rule k + 1 resolves a
\* show name and on its own returns, the call returns the show of rule
\* k + 1, whether or not rule k has a static name.
C11_OutOfRangeFallsThrough ==
    extracted.kind # "none" =>
        \A k \in 1..(Len(patterns) - 1) :
            (/\ \A j \in 1..(k - 1) : PassedOver(patterns[j], call_title)
             /\ ShowGroupOutOfRange(patterns[k], call_title)
             /\ Resolves(patterns[k + 1], call_title)
             /\ ~ShowGroupOutOfRange(patterns[k + 1], call_title)
             /\ _extract_show_episode(<<patterns[k + 1]>>, call_title).kind
                    = "return") =>
                /\ extracted.kind = "return"
                /\ extracted.show
                       = show_name_of(patterns[k + 1],
                             re_search(patterns[k + 1].title_regex[1],
                                       call_title)).value

\* The episode extraction of the rule fails in one of the ways named: no
\* match, too few groups, a group that took no part, or text that is no
\* integer.
EpisodeFails(pattern, t) ==
    /\ pattern.episode_regex # None
    /\ LET episode_match == re_search(pattern.episode_regex[1], t)
       IN \/ ~episode_match.matched
          \/ Len(episode_match.groups) < pattern.episode_group
          \/ episode_match.groups[pattern.episode_group] = None
          \/ int(episode_match.groups[pattern.episode_group][1]).raised # ""

\* C12 as stated: when the first rule that resolves a show name fails to
\* extract an episode, the call returns that rule's show with episode None.
C12_EpisodeFailureKeepsShow ==
    extracted.kind # "none" =>
        \A k \in 1..Len(patterns) :
            (/\ \A j \in 1..(k - 1) : PassedOver(patterns[j], call_title)
             /\ Resolves(patterns[k], call_title)
             /\ EpisodeFails(patterns[k], call_title)) =>
                extracted
                    = Returned(show_name_of(patterns[k],
                                   re_search(patterns[k].title_regex[1],
                                             call_title)).value, None)

\* C13 as stated: no call of _extract_show_episode raises, and a call on a
\* list of which no rule resolves a show name returns (None, None).
C13_NeverRaises ==
    extracted.kind # "none" =>
        /\ extracted.kind = "return"
        /\ (\A k \in 1..Len(patterns) : ~Resolves(patterns[k], call_title))
               => extracted = Returned(None, None)

(***************************************************************************)
(* Properties of the Shorts classifier.                                    *)
(***************************************************************************)
\* How many of the four indicators the arguments of the call carry.
Indicators ==
    Cardinality(additional_indicators(detect_args.snippet,
                                      detect_args.recording_details))

C15_NeverShortBeyondBuffer ==
    (is_short.called /\ detect_args.duration_seconds > 65)
        => ~is_short.value

\* C15 witness: a call with more than 65 seconds and all four indicators
\* has returned false.
C15_Witness ==
    /\ is_short.called
    /\ detect_args.duration_seconds > 65
    /\ Indicators = 4
    /\ ~is_short.value

\* C24: a call of _detect_youtube_short with duration d >= 0 and n of the
\* four indicators returns true exactly when 0 < d <= 60, or 60 < d <= 65
\* and n >= 2; a duration of 0 is never a short.
C24_ExactClassification ==
    is_short.called =>
        LET d == detect_args.duration_seconds
            n == Indicators
        IN is_short.value <=>
               \/ 0 < d /\ d <= 60
               \/ 60 < d /\ d <= 65 /\ n >= 2

(***************************************************************************)
(* Properties of the transcript extraction.                                *)
(***************************************************************************)
\* C16 as stated: the text extract_text_from_vtt returned is a fixed point
\* of extract_text_from_vtt.
C16_Idempotent ==
    transcript.called =>
        extract_text_from_vtt(transcript.value) = transcript.value

\* The lines of the input that get past the skip tests, without their tags.
RECURSIVE Candidates(_)
Candidates(lines) ==
    IF lines = <<>> THEN <<>>
    ELSE IF clean_line(Head(lines)) = None THEN Candidates(Tail(lines))
    ELSE <<clean_line(Head(lines))[1]>> \o Candidates(Tail(lines))

\* The candidates that differ from the candidate just before them.
RECURSIVE CollapseAdjacent(_)
CollapseAdjacent(c) ==
    IF Len(c) <= 1 THEN c
    ELSE LET front == SubSeq(c, 1, Len(c) - 1)
         IN IF c[Len(c)] = c[Len(c) - 1]
            THEN CollapseAdjacent(front)
            ELSE Append(CollapseAdjacent(front), c[Len(c)])

HelloLine == <<"H", "e", "l", "l", "o">>
WorldLine == <<"W", "o", "r", "l", "d">>

\* C17: the lines extract_text_from_vtt returns are the candidate lines
\* less those equal to the candidate just before them, so a candidate equal
\* to an earlier one that is not adjacent is kept; the lines Hello, Hello,
\* World, Hello give Hello, World, Hello.
C17_OnlyAdjacentDuplicatesCollapse ==
    transcript.called =>
        /\ transcript.value
               = join(CollapseAdjacent(Candidates(split(subtitle_content))))
        /\ subtitle_content
               = join(<<HelloLine, HelloLine, WorldLine, HelloLine>>)
               => transcript.value
                      = join(<<HelloLine, WorldLine, HelloLine>>)

\* C17 witness: the call on Hello, Hello, World, Hello has returned Hello,
\* World, Hello.
C17_Witness ==
    /\ transcript.called
    /\ subtitle_content
           = join(<<HelloLine, HelloLine, WorldLine, HelloLine>>)
    /\ transcript.value = join(<<HelloLine, WorldLine, HelloLine>>)

\* The line carries an inline timestamp tag: "<", two digits of the hour
\* and ":".
HasInlineTimestamp(line) ==
    \E k \in 1..(Len(line) - 3) :
        /\ line[k] = "<"
        /\ line[k + 1] \in Digits
        /\ line[k + 2] \in Digits
        /\ line[k + 3] = ":"

\* The lines without those that carry an inline timestamp tag.
RECURSIVE WithoutTimestampLines(_)
WithoutTimestampLines(lines) ==
    IF lines = <<>> THEN <<>>
    ELSE IF HasInlineTimestamp(Head(lines))
    THEN WithoutTimestampLines(Tail(lines))
    ELSE <<Head(lines)>> \o WithoutTimestampLines(Tail(lines))

\* C25: extract_text_from_vtt discards every line that contains an inline
\* timestamp tag, whatever its hour: the text returned is the text returned
\* for the input without those lines.
C25_TimestampLinesDiscarded ==
    transcript.called =>
        transcript.value
            = extract_text_from_vtt(
                  join(WithoutTimestampLines(split(subtitle_content))))

\* The lines of the text returned: none for the empty text.
OutputLines ==
    IF transcript.value = <<>> THEN <<>> ELSE split(transcript.value)

\* The input line stripped, without its tags, and stripped again.
Untagged(raw) == Strip(remove_tags(Strip(raw, Whitespace)), Whitespace)

\* The lines of out are, in their order, some of the lines of from.
RECURSIVE IsSelection(_, _)
IsSelection(out, from) ==
    IF out = <<>> THEN TRUE
    ELSE IF from = <<>> THEN FALSE
    ELSE IF Head(out) = Head(from) THEN IsSelection(Tail(out), Tail(from))
    ELSE IsSelection(out, Tail(from))

\* C29: the text extract_text_from_vtt returns has no empty line, no line
\* with leading or trailing whitespace and no two consecutive equal lines,
\* and its lines are, in the order of the input, some of the input lines
\* without their tags.
C29_OutputShape ==
    transcript.called =>
        LET lines == split(subtitle_content)
        IN /\ \A k \in 1..Len(OutputLines) :
                  /\ OutputLines[k] # <<>>
                  /\ OutputLines[k][1] \notin Whitespace
                  /\ OutputLines[k][Len(OutputLines[k])] \notin Whitespace
           /\ \A k \in 1..(Len(OutputLines) - 1) :
                  OutputLines[k] # OutputLines[k + 1]
           /\ IsSelection(OutputLines,
                          [k \in 1..Len(lines) |-> Untagged(lines[k])])

\* C29 witness: the call on WEBVTT, " <i> World</i> ", <c>Hello</c>, Hello
\* has returned World, Hello.
C29_Witness ==
    /\ transcript.called
    /\ subtitle_content
           = join(<<<<"W", "E", "B", "V", "T", "T">>,
                    <<" ", "<", "i", ">", " ", "W", "o", "r", "l", "d", "<",
                      "/", "i", ">", " ">>,
                    <<"<", "c", ">", "H", "e", "l", "l", "o", "<", "/", "c",
                      ">">>,
                    HelloLine>>)
    /\ OutputLines = <<WorldLine, HelloLine>>

(***************************************************************************)
(* Properties of the error accounting of download_captions_batch.          *)
(***************************************************************************)
\* The provider answered 403 to the caption request of the current item.
AccessDenied == raised.cause = "403"

\* The except step recorded the current item under permission_denied.
RecordsPermissionDenied ==
    /\ stats'.permission_denied = stats.permission_denied + 1
    /\ stats'.permission_denied_ids =
           Append(stats.permission_denied_ids, video_id)

\* C20: in download_captions_batch a 403 of the provider, at caption-track
\* listing or at caption download, is recorded under permission_denied and
\* permission_denied_ids and never under failed; no failure of another kind
\* (not found, other provider error, local file-write error) is recorded
\* under permission_denied; and the loop goes on to the next id in both
\* cases.
C20_DenialsAndOnlyDenialsUnderPermissionDenied ==
    [][b_pc = "except" =>
           /\ AccessDenied =>
                  /\ RecordsPermissionDenied
                  /\ stats'.failed = stats.failed
                  /\ stats'.failed_ids = stats.failed_ids
           /\ ~AccessDenied =>
                  /\ stats'.permission_denied = stats.permission_denied
                  /\ stats'.permission_denied_ids =
                         stats.permission_denied_ids
           /\ item' = item + 1
           /\ b_pc' \in {"check", "returned"}]_vars

(***************************************************************************)
(* Properties of the two per-video loops.                                  *)
(***************************************************************************)
\* How many ids the running batch call has counted under one of its five
\* counters.
Counted ==
    stats.successful + stats.failed + stats.no_captions + stats.skipped
        + stats.permission_denied

\* The positions of videos whose statistics the ingestion has asked for.
Fetched ==
    {events[k].item :
         k \in {j \in 1..Len(events) : events[j].what = "videos.list"}}

\* C18: in download_captions_batch and in get_channel_video_stats an
\* exception raised while one video is processed is caught at the loop
\* boundary: the loop goes on with the next position of the same list, every
\* id before the current position has been counted once, the call returns
\* after the last position, every position of the list having been
\* processed, and a call in which an exception was raised does return.
C18_FailureIsolation ==
    /\ [][b_pc = "except" =>
              /\ item' = item + 1
              /\ video_ids' = video_ids
              /\ b_pc' = IF item < Len(video_ids) THEN "check"
                                                  ELSE "returned"]_vars
    /\ [][g_pc = "except" =>
              /\ g_item' = g_item + 1
              /\ videos' = videos
              /\ saved_count' = saved_count
              /\ g_pc' = IF g_item < Len(videos) THEN "stats"
                                                 ELSE "returned"]_vars
    /\ [](b_pc # "idle" => Counted = item - 1)
    /\ [](b_pc = "returned" => item = Len(video_ids) + 1)
    /\ [](g_pc = "returned" => Fetched = 1..Len(videos))
    /\ (b_pc = "except") ~> (b_pc = "returned")
    /\ (g_pc = "except") ~> (g_pc = "returned")

\* An ingestion of two videos has returned: the statistics request of the
\* first raised, the second was fetched and saved.
C18_Witness ==
    /\ g_pc = "returned"
    /\ Len(videos) = 2
    /\ saved_count = 1
    /\ \E k \in 1..Len(events) :
           events[k].item = 2 /\ events[k].what = "saved"
    /\ \A k \in 1..Len(events) :
           events[k].item = 1 => events[k].what = "videos.list"

\* A call of download_captions_batch, of get_channel_video_stats, is running.
BatchRunning == b_pc \notin {"idle", "returned"}
IngestRunning == g_pc \notin {"idle", "returned"}

\* The list either stays or gets the current id of the batch appended.
GrowsByCurrent(ids) ==
    stats'[ids] = stats[ids] \/ stats'[ids] = Append(stats[ids], video_id)

\* C19: in download_captions_batch and get_channel_video_stats the videos are
\* processed strictly in input-list order.  A call starts at position 1 and a
\* running call stays at its position or moves to the next one, of the same
\* list, also when the item fails or is skipped; every request, every
\* counter update and every write of a step is for the id at the current
\* position (a counter is updated in the step that leaves the position); and
\* the log of an ingestion is in the order of the positions.
C19_InputListOrder ==
    /\ [][(~BatchRunning /\ b_pc' # b_pc) => item' = 1]_vars
    /\ [][BatchRunning =>
              /\ video_ids' = video_ids
              /\ item' = item \/ item' = item + 1
              /\ RequestMade =>
                     /\ requests'[Len(requests')].item = item
                     /\ requests'[Len(requests')].video_id = video_ids[item]
              /\ stats' # stats =>
                     /\ item' = item + 1
                     /\ \A ids \in {"failed_ids", "no_captions_ids",
                                    "permission_denied_ids"} :
                            GrowsByCurrent(ids)
              /\ \A n \in DOMAIN files' \ DOMAIN files :
                     EndsWith(n, <<"_">> \o video_ids[item] \o <<".">>
                                     \o format)]_vars
    /\ [](b_pc # "idle" =>
             \A k \in 1..Len(requests) : requests[k].item <= item)
    /\ [][(~IngestRunning /\ g_pc' # g_pc) => g_item' = 1]_vars
    /\ [][IngestRunning =>
              /\ videos' = videos
              /\ g_item' = g_item \/ g_item' = g_item + 1
              /\ events' = events
                    \/ \E e \in {"videos.list", "reports.query", "saved",
                                 "save failed"} :
                           events' = Append(events, Event(e))
              /\ saved_count' # saved_count =>
                     events' = Append(events, Event("saved"))
              /\ \A v \in VideoIds \ {videos[g_item]} :
                     /\ RowsOf(video_stats', v) = RowsOf(video_stats, v)
                     /\ TrafficRowsOf(traffic_sources', v)
                            = TrafficRowsOf(traffic_sources, v)]_vars
    /\ [](\A j, k \in 1..Len(events) :
             j < k => events[j].item <= events[k].item)
    /\ [](\A k \in 1..Len(events) :
             /\ events[k].item <= g_item
             /\ events[k].video_id = videos[events[k].item])

\* A batch of two different ids has returned: the first failed after its
\* requests, the second was downloaded and saved after it.
C19_Witness ==
    /\ b_pc = "returned"
    /\ Len(video_ids) = 2
    /\ video_ids[1] # video_ids[2]
    /\ stats.failed_ids = <<video_ids[1]>>
    /\ stats.successful = 1
    /\ Len(requests) = 3
    /\ \A k \in 1..Len(requests) : requests[k].item = 2
    /\ MatchingFile(files, video_ids[2], format)
    /\ ~MatchingFile(files, video_ids[1], format)

\* The five outcome counters of stats.
Counters ==
    {"successful", "failed", "no_captions", "skipped", "permission_denied"}

\* C27: in download_captions_batch every input id is counted in exactly one
\* outcome category.  The step that ends an item adds one to exactly one of
\* the five counters and no other step changes a counter; after the k-th
\* item the counters sum to k; at return they sum to the length of
\* video_ids; and failed_ids, no_captions_ids and permission_denied_ids have
\* as many entries as their counters say.
C27_OneCategoryPerId ==
    /\ [][BatchRunning =>
              IF item' = item + 1
              THEN \E c \in Counters :
                       /\ stats'[c] = stats[c] + 1
                       /\ \A o \in Counters \ {c} : stats'[o] = stats[o]
              ELSE stats' = stats]_vars
    /\ [](b_pc # "idle" =>
             /\ Counted = item - 1
             /\ Len(stats.failed_ids) = stats.failed
             /\ Len(stats.no_captions_ids) = stats.no_captions
             /\ Len(stats.permission_denied_ids) = stats.permission_denied)
    /\ [](b_pc = "returned" => Counted = Len(video_ids))

\* C27 witness: a batch of two ids has returned, one id without a caption
\* track and one failed.
C27_Witness ==
    /\ b_pc = "returned"
    /\ Len(video_ids) = 2
    /\ stats.no_captions = 1
    /\ stats.failed = 1
    /\ Len(stats.no_captions_ids) = 1
    /\ Len(stats.failed_ids) = 1

(***************************************************************************)
(* Properties of the commands and of the show mapping.                     *)
(***************************************************************************)
\* The run in progress or just ended is one whose config file cannot be
\* loaded.
ConfigUnloadable(r) == r.command # "none" /\ ~r.config.loadable

\* C21: a missing or malformed show-pattern configuration is fatal.  No step
\* of a run (video-stats with sqlite output, or update-shows) whose config
\* file cannot be loaded inserts or updates a row of video_stats or writes a
\* show or episode_num, and such a run does not finish: it halts with an
\* error.
C21_UnloadableConfigIsFatal ==
    /\ [][ConfigUnloadable(run') => video_stats' = video_stats]_vars
    /\ [](ConfigUnloadable(run) => run.phase # "finished")

\* The step is a process_videos run of a config file that sets
\* update_only_empty to false.
OverwritingRun ==
    /\ call'.op = "process_videos"
    /\ ~call'.config.update_only_empty

\* C22: under update_only_empty (the default), across save_video_stats_db
\* calls and process_videos runs, show and episode_num of a video are
\* written at most once.  A video whose show is set to a non-empty value is
\* never selected by get_videos_to_update, and every step that changes its
\* show or episode_num is a run with update_only_empty off; neither a new
\* title nor another rule list makes a difference.
C22_ShowSetOnce ==
    /\ [](\A r \in get_videos_to_update(video_stats, TRUE) : ShowEmpty(r))
    /\ [][(\E r \in video_stats :
              /\ ~ShowEmpty(r)
              /\ \A q \in RowsOf(video_stats', r.video_id) :
                     q.show # r.show \/ q.episode_num # r.episode_num)
          => OverwritingRun]_vars

\* C22 witness: video x was mapped to show S, episode 7, and retitled "Q"
\* by a later save; a run with the static rule N and update_only_empty has
\* then returned without processing it.
C22_Witness ==
    /\ call.op = "process_videos"
    /\ call.config = Loaded(StaticRuleList, TRUE)
    /\ ~call.dry_run
    /\ call.outcome.kind = "return"
    /\ call.outcome.stats.total_processed = 0
    /\ \E r \in video_stats :
           /\ r.video_id = <<"x">>
           /\ r.title = <<"Q">>
           /\ r.show = Some(<<"S">>)
           /\ r.episode_num = Some(7)

\* C26: process_videos with dry_run makes no change to the database (no
\* show, episode_num or last_updated of any row) and gives its caller the
\* counts the run without dry_run gives from the same rows and the same
\* config file.
C26_DryRunChangesNothing ==
    /\ [](\A c \in LoadedConfigs :
            \A fetched \in Fetched_all(get_videos_to_update(
                               video_stats, c.update_only_empty)) :
                LET dry == process_videos(fetched, video_stats, c, TRUE, now)
                    wet == process_videos(fetched, video_stats, c, FALSE, now)
                IN /\ dry.table = video_stats
                   /\ Outcome(dry) = Outcome(wet))
    /\ [][call'.op = "process_videos" /\ call'.dry_run
          => video_stats' = video_stats]_vars

\* C26 witness: a dry run has just counted a mapped show with its episode,
\* and the row it matched is still without show and episode.
C26_Witness ==
    /\ call.op = "process_videos"
    /\ call.dry_run
    /\ call.outcome.kind = "return"
    /\ call.outcome.stats.shows_mapped > 0
    /\ call.outcome.stats.episodes_mapped > 0
    /\ \A r \in video_stats : ShowEmpty(r) /\ EpisodeEmpty(r)

\* C28: save_video_stats_db for a video that already has a row leaves that
\* row's show, episode_num and exclude_from_stats as they were, and leaves
\* the video_stats row and the traffic_sources rows of every other video
\* unchanged.
C28_ReingestKeepsMappingAndOthers ==
    [][call'.op = "save" /\ existing(video_stats, call'.video_id)
       => /\ \A r \in RowsOf(video_stats, call'.video_id) :
                 \E q \in RowsOf(video_stats', call'.video_id) :
                     /\ q.id = r.id
                     /\ q.show = r.show
                     /\ q.episode_num = r.episode_num
                     /\ q.exclude_from_stats = r.exclude_from_stats
          /\ \A v \in VideoIds \ {call'.video_id} :
                 /\ RowsOf(video_stats', v) = RowsOf(video_stats, v)
                 /\ TrafficRowsOf(traffic_sources', v) =
                        TrafficRowsOf(traffic_sources, v)]_vars

\* C28 witness: video x, mapped to show S and excluded by the operator, has
\* just been ingested again with another title and new traffic sources,
\* while video y has a row and traffic rows of its own.
C28_Witness ==
    /\ call.op = "save"
    /\ pc = "done"
    /\ call.video_id = <<"x">>
    /\ call.traffic_sources # NoSources
    /\ \E r \in video_stats :
           /\ r.video_id = <<"x">>
           /\ r.title = <<"Q">>
           /\ r.title = call.stats.title
           /\ r.last_updated = call.at
           /\ r.collected_at < r.last_updated
           /\ r.show = Some(<<"S">>)
           /\ r.episode_num = Some(7)
           /\ r.exclude_from_stats = 1
    /\ RowsOf(video_stats, <<"y">>) # {}
    /\ DOMAIN TrafficRowsOf(traffic_sources, <<"y">>) # {}

\* The saves committed so far, oldest first: those the loop has counted,
\* and the one whose commit has just ended.
CommitLog ==
    SelectSeq(events, LAMBDA e : e.what = "saved")
        \o (IF pc = "done" /\ call.op = "save" THEN <<call>> ELSE <<>>)

\* The ingested fields of the video rows, and the traffic rows, that a
\* sequence of committed saves leaves in an empty database.
RECURSIVE SavedVideos(_)
SavedVideos(log) ==
    IF log = <<>> THEN {}
    ELSE LET last == log[Len(log)]
         IN {s \in SavedVideos(SubSeq(log, 1, Len(log) - 1)) :
                 s.video_id # last.video_id} \cup {last.stats}

RECURSIVE SavedTraffic(_)
SavedTraffic(log) ==
    IF log = <<>> THEN EmptyBag
    ELSE LET last == log[Len(log)]
         IN replace_traffic_sources(
                SavedTraffic(SubSeq(log, 1, Len(log) - 1)),
                last.video_id, last.traffic_sources)

IngestedFields(table) ==
    {[video_id |-> r.video_id, title |-> r.title,
      view_count |-> r.view_count] : r \in table}

Crashed == pc = "crashed" \/ g_pc = "crashed"

\* C23: every video's save is committed in a transaction of its own.  In
\* every state, also while a save is in flight and after the process has
\* died at any position, the database holds exactly what the saves committed
\* so far have written: the rows of every video saved earlier are kept, and
\* only the statements of the save in flight are lost.  The database changes
\* at a commit only, for the video at the current position only, and a
\* transaction never spans two positions.
C23_PerVideoTransaction ==
    /\ [](/\ IngestedFields(video_stats) = SavedVideos(CommitLog)
          /\ traffic_sources = SavedTraffic(CommitLog))
    /\ [](InFlight => g_pc = "saving")
    /\ [][/\ (video_stats' # video_stats \/ traffic_sources' # traffic_sources)
             => /\ InFlight
                /\ pc' = "done"
                /\ \A v \in VideoIds \ {videos[g_item]} :
                       /\ RowsOf(video_stats', v) = RowsOf(video_stats, v)
                       /\ TrafficRowsOf(traffic_sources', v) =
                              TrafficRowsOf(traffic_sources, v)
          /\ g_item' # g_item => ~InFlight /\ pc' = pc
          /\ Crashed => video_stats' = video_stats
                        /\ traffic_sources' = traffic_sources]_vars

\* C23 witness: the process has died at position 2 with the video row and a
\* traffic row of that video written but not committed, after the save of
\* position 1 was committed and counted.
C23_Witness ==
    /\ pc = "crashed"
    /\ g_item = 2
    /\ saved_count = 1
    /\ videos[1] # videos[2]
    /\ RowsOf(video_stats, videos[1]) # {}
    /\ DOMAIN TrafficRowsOf(traffic_sources, videos[1]) # {}
    /\ RowsOf(tx_video_stats, videos[2]) # {}
    /\ DOMAIN TrafficRowsOf(tx_traffic_sources, videos[2]) # {}
    /\ RowsOf(video_stats, videos[2]) = {}
    /\ TrafficRowsOf(traffic_sources, videos[2]) = EmptyBag

(***************************************************************************)
(* Properties of the pagination of get_channel_videos.                     *)
(***************************************************************************)
ListingRunning == listing.pc \in {"while", "request"}
ListingEnded == listing.pc \in {"returned", "raised"}

\* C30: the pagination loop of get_channel_videos ends for every
\* max_results and every sequence of pages.  The videos collected are the
\* items of the pages in the order the provider returned them; when every
\* page held at most the per_page items requested, min(50, max_results -
\* collected), the call returns at most max_results videos; and the loop
\* stops right after a page without nextPageToken or shorter than per_page.
C30_PaginationTerminates ==
    /\ ListingRunning ~> ListingEnded
    /\ [](listing.videos = listing.provided)
    /\ [](listing.pc = "request"
            => listing.per_page = Min(PageCap, listing.max_results
                                               - Len(listing.videos)))
    /\ [](listing.pc = "returned" /\ listing.within
            => Len(listing.videos) <= listing.max_results)
    /\ [][/\ listing.pc = "request"
          /\ listing'.pc # "raised"
          /\ \/ listing'.next_page_token = None
             \/ Len(listing'.page_videos) < listing.per_page
          => listing'.pc = "returned"]_vars

\* C30 witness: a call for more than 50 videos has returned after a full
\* first page of 50 and a second page of the remaining count that came with
\* a nextPageToken.
C30_Witness ==
    /\ listing.pc = "returned"
    /\ listing.max_results > PageCap
    /\ listing.page_count = 2
    /\ listing.within
    /\ listing.next_page_token # None
    /\ Len(listing.page_videos) = listing.max_results - PageCap
    /\ Len(listing.videos) = listing.max_results

====
